---- MODULE Spec2Model ----
(***************************************************************************)
(* A model of the temppath module (index.js): the resolver getTempPath,    *)
(* the blocking materializer createTempPathSync and the callback-based     *)
(* materializer createTempPath, over an abstract POSIX filesystem and the  *)
(* JavaScript job queue.                                                   *)
(*                                                                         *)
(* Strings are sequences of one-character strings, so that trimming,       *)
(* prefix tests and path joining are computed and not assumed.             *)
(***************************************************************************)
EXTENDS Integers, Sequences, FiniteSets, TLC

VARIABLES env, dirs, files, calls, temppath, patch

vars == <<env, dirs, files, calls, temppath, patch>>

(***************************************************************************)
(* Bounds of the model.                                                    *)
(***************************************************************************)
\* number of calls (of any of the three functions) in one behaviour
MaxCalls == 2
\* number of attempts to change the exported object in one behaviour
MaxPatches == 3
\* largest maxLen tried above the length of a full token
MaxOver == 1

(***************************************************************************)
(* JavaScript values.  A primitive is [t, s, n]: its tag, its characters   *)
(* (strings), its integer (numbers, function identities; 1/0 for           *)
(* booleans).  An options record is [t |-> "object", asFile, ext, maxLen]. *)
(***************************************************************************)
Undefined == [t |-> "undefined", s |-> <<>>, n |-> 0]
Null == [t |-> "null", s |-> <<>>, n |-> 0]
NaNV == [t |-> "nan", s |-> <<>>, n |-> 0]
StrV(s) == [t |-> "string", s |-> s, n |-> 0]
NumV(n) == [t |-> "number", s |-> <<>>, n |-> n]
BoolV(b) == [t |-> "boolean", s |-> <<>>, n |-> IF b THEN 1 ELSE 0]
\* the array [] when s is empty, and the one-element array [s] otherwise
ArrV(s) == [t |-> "array", s |-> s, n |-> 0]
FunV(id) == [t |-> "function", s |-> <<>>, n |-> id]
ObjV(asFile, ext, maxLen) ==
    [t |-> "object", asFile |-> asFile, ext |-> ext, maxLen |-> maxLen]
EmptyObj == ObjV(Undefined, Undefined, Undefined)

\* typeof v
TypeOf(v) ==
    CASE v.t = "undefined" -> "undefined"
      [] v.t \in {"null", "array", "object"} -> "object"
      [] v.t \in {"number", "nan"} -> "number"
      [] OTHER -> v.t

\* ToBoolean(v): what `if (v)`, `!v` and `||` test
Truthy(v) ==
    CASE v.t \in {"undefined", "null", "nan"} -> FALSE
      [] v.t = "string" -> Len(v.s) > 0
      [] v.t \in {"number", "boolean"} -> v.n # 0
      [] OTHER -> TRUE

IsArray(v) == v.t = "array"

isNullOrUndefined(o) == o.t = "null" \/ TypeOf(o) = "undefined"

\* v.f cannot be read of null and undefined: the engine throws a TypeError
CanRead(v) == v.t \notin {"undefined", "null"}

\* v.f for f among asFile, ext, maxLen, where CanRead(v)
Get(v, f) == IF v.t = "object" THEN v[f] ELSE Undefined

\* v.length
LengthOf(v) ==
    CASE v.t = "string" -> NumV(Len(v.s))
      [] v.t = "array" -> NumV(IF v.s = <<>> THEN 0 ELSE 1)
      [] OTHER -> Undefined

Digits == <<"0", "1", "2", "3", "4", "5", "6", "7", "8", "9">>
IsDigit(c) == \E i \in 1..10 : Digits[i] = c
DigitVal(c) == (CHOOSE i \in 1..10 : Digits[i] = c) - 1

\* the value of a singleton set: the recursive operators bind their arguments
\* with it, so that each is evaluated once per step
The(S) == CHOOSE x \in S : TRUE

\* the number a sequence of decimal digits writes, after the digits acc stands for
RECURSIVE ParseDigits(_, _)
ParseDigits(s0, acc0) ==
    The({IF s = <<>> THEN acc ELSE ParseDigits(Tail(s), 10 * acc + DigitVal(Head(s)))
         : s \in {s0}, acc \in {acc0}})

\* ToNumber(v), as the relational operators and substr apply it:
\* [nan |-> TRUE] or [nan |-> FALSE, n |-> the number]
ToNumber(v) ==
    CASE v.t \in {"number", "boolean"} -> [nan |-> FALSE, n |-> v.n]
      [] v.t = "null" -> [nan |-> FALSE, n |-> 0]
      [] v.t = "string" ->
            IF \A i \in 1..Len(v.s) : IsDigit(v.s[i])
            THEN [nan |-> FALSE, n |-> ParseDigits(v.s, 0)]
            ELSE [nan |-> TRUE, n |-> 0]
      [] v.t = "array" ->
            IF \A i \in 1..Len(v.s) : IsDigit(v.s[i])
            THEN [nan |-> FALSE, n |-> ParseDigits(v.s, 0)]
            ELSE [nan |-> TRUE, n |-> 0]
      [] OTHER -> [nan |-> TRUE, n |-> 0]

\* v <= 0
LeqZero(v) == LET k == ToNumber(v) IN ~k.nan /\ k.n <= 0

(***************************************************************************)
(* Strings.                                                                *)
(***************************************************************************)
Min(a, b) == IF a < b THEN a ELSE b
Max(a, b) == IF a > b THEN a ELSE b

StartsWith(s, c) == Len(s) > 0 /\ s[1] = c
EndsWith(s, suffix) ==
    /\ Len(s) >= Len(suffix)
    /\ SubSeq(s, Len(s) - Len(suffix) + 1, Len(s)) = suffix

\* s.replace(/-/g, '')
RemoveHyphens(s) == SelectSeq(s, LAMBDA c : c # "-")

\* s.substr(0, length): the whole of s when length is undefined, and
\* otherwise ToIntegerOrInfinity(length) characters, clamped to 0..Len(s)
Substr0(s, length) ==
    IF length.t = "undefined" THEN s
    ELSE LET k == ToNumber(length)
             n == IF k.nan THEN 0 ELSE k.n
         IN  SubSeq(s, 1, Min(Max(n, 0), Len(s)))

(***************************************************************************)
(* node:crypto randomUUID(): 36 characters, five groups of hexadecimal     *)
(* digits (8-4-4-4-12) separated by hyphens.  The generator is a black     *)
(* box; the model draws its result from the values UUID(k), k in UUIDIds.  *)
(***************************************************************************)
UUIDIds == {1, 2}
UUIDLen == 36
TokenLen == 32
Hex == <<"0", "1", "2", "3", "4", "5", "6", "7", "8", "9", "a", "b", "c", "d", "e", "f">>
\* UUID(3) is UUID(1) but for its last digit
TwinIds == {3}
UUID(k) ==
    LET digits(j) ==
            [i \in 1..UUIDLen |->
                IF i \in {9, 14, 19, 24} THEN "-" ELSE Hex[((i * (2 * j + 1) + j) % 16) + 1]]
    IN  IF k \in TwinIds THEN [digits(1) EXCEPT ![UUIDLen] = "0"] ELSE digits(k)

(***************************************************************************)
(* node:path, POSIX flavour.                                               *)
(***************************************************************************)
Sep == "/"

\* the segments of p between separators (empty segments included)
RECURSIVE SplitAcc(_, _, _)
SplitAcc(p0, cur0, acc0) ==
    The({IF p = <<>> THEN Append(acc, cur)
         ELSE IF Head(p) = Sep THEN SplitAcc(Tail(p), <<>>, Append(acc, cur))
         ELSE SplitAcc(Tail(p), Append(cur, Head(p)), acc)
         : p \in {p0}, cur \in {cur0}, acc \in {acc0}})
Split(p) == SplitAcc(p, <<>>, <<>>)

\* normalizeString: drops "" and ".", resolves ".." against the segment before
RECURSIVE NormSegs(_, _, _)
NormSegs(segs0, acc0, allowAboveRoot) ==
    The({IF segs = <<>> THEN acc
         ELSE IF Head(segs) = <<>> \/ Head(segs) = <<".">>
         THEN NormSegs(Tail(segs), acc, allowAboveRoot)
         ELSE IF Head(segs) = <<".", ".">> THEN
              IF acc # <<>> /\ acc[Len(acc)] # <<".", ".">>
              THEN NormSegs(Tail(segs), SubSeq(acc, 1, Len(acc) - 1), allowAboveRoot)
              ELSE IF allowAboveRoot
                   THEN NormSegs(Tail(segs), Append(acc, Head(segs)), allowAboveRoot)
                   ELSE NormSegs(Tail(segs), acc, allowAboveRoot)
         ELSE NormSegs(Tail(segs), Append(acc, Head(segs)), allowAboveRoot)
         : segs \in {segs0}, acc \in {acc0}})

RECURSIVE JoinSegs(_)
JoinSegs(segs0) ==
    The({IF segs = <<>> THEN <<>>
         ELSE IF Len(segs) = 1 THEN segs[1]
         ELSE segs[1] \o <<Sep>> \o JoinSegs(Tail(segs))
         : segs \in {segs0}})

\* path.isAbsolute(p)
IsAbsolute(p) == StartsWith(p, Sep)

\* path.normalize(p)
Normalize(p) ==
    IF p = <<>> THEN <<".">>
    ELSE LET abs == IsAbsolute(p)
             trailing == p[Len(p)] = Sep
             body == JoinSegs(NormSegs(Split(p), <<>>, ~abs))
         IN  IF body = <<>>
             THEN (IF abs THEN <<Sep>> ELSE IF trailing THEN <<".", Sep>> ELSE <<".">>)
             ELSE (IF abs THEN <<Sep>> ELSE <<>>) \o body
                  \o (IF trailing THEN <<Sep>> ELSE <<>>)

\* path.join(a, b) of two strings
PathJoin(a, b) ==
    LET joined == IF a = <<>> THEN b
                  ELSE IF b = <<>> THEN a
                  ELSE a \o <<Sep>> \o b
    IN  IF joined = <<>> THEN <<".">> ELSE Normalize(joined)

\* path.dirname(p)
PathDirname(p) ==
    LET hasRoot == IsAbsolute(p)
        nonSep == {i \in 2..Len(p) : p[i] # Sep}
        e == IF nonSep = {} THEN 0 ELSE CHOOSE i \in nonSep : \A j \in nonSep : j <= i
        seps == {j \in 2..(e - 1) : p[j] = Sep}
        end == IF seps = {} THEN 0 ELSE CHOOSE j \in seps : \A k \in seps : k <= j
    IN  IF p = <<>> THEN <<".">>
        ELSE IF end = 0 THEN (IF hasRoot THEN <<Sep>> ELSE <<".">>)
        ELSE IF hasRoot /\ end = 2 THEN <<Sep, Sep>>
        ELSE SubSeq(p, 1, end - 1)

\* path.basename(p) of a path with no trailing separator
PathBasename(p) == LET segs == Split(p) IN segs[Len(segs)]

\* path.resolve(from, to) with from absolute and to relative
PathResolve(from, to) ==
    <<Sep>> \o JoinSegs(NormSegs(Split(from \o <<Sep>> \o to), <<>>, FALSE))

(***************************************************************************)
(* Errors.  name is the constructor (TypeError, RangeError, Error); code,  *)
(* syscall and path are set on filesystem and library errors; cause is the *)
(* error given as { cause } and NoErr otherwise.                           *)
(***************************************************************************)
NoErr == [name |-> "none"]
ErrV(name, message) ==
    [name |-> name, message |-> message, code |-> "", syscall |-> "",
     path |-> <<>>, cause |-> NoErr]
\* the error node:path raises for a path segment that is not a string
InvalidArgType ==
    [name |-> "TypeError", message |-> "The \"path\" argument must be of type string",
     code |-> "ERR_INVALID_ARG_TYPE", syscall |-> "", path |-> <<>>, cause |-> NoErr]
\* the error the engine raises for reading a property of null or undefined
CannotRead == ErrV("TypeError", "Cannot read properties of null")
\* an error of a filesystem operation
FsErr(code, syscall, p) ==
    [name |-> "Error", message |-> code, code |-> code, syscall |-> syscall,
     path |-> p, cause |-> NoErr]

\* the outcome of a call: a returned value or a thrown error
Return(v) == [kind |-> "return", value |-> v, err |-> NoErr]
Throw(e) == [kind |-> "throw", value |-> <<>>, err |-> e]

(***************************************************************************)
(* The process environment: env.TMPDIR, env.TMP and env.TEMP are the       *)
(* values of process.env (a string, or undefined when unset), env.osTmp is *)
(* what os.tmpdir() returns and env.cwd what process.cwd() returns.        *)
(***************************************************************************)
\* a || b
Or(a, b) == IF Truthy(a) THEN a ELSE b

GetTempDirSwapped ==
    Or(Or(Or(env.TMP, Or(env.TMPDIR, env.TEMP)), StrV(env.osTmp)),
       StrV(PathResolve(env.cwd, <<"t", "m", "p">>)))

__getTempDir ==
    Or(Or(Or(env.TMPDIR, Or(env.TMP, env.TEMP)), StrV(env.osTmp)),
       StrV(PathResolve(env.cwd, <<"t", "m", "p">>)))

\* a variant that cuts the value before it removes the hyphens
TokenCutFirst(uuid, maxLen) == RemoveHyphens(Substr0(uuid, maxLen))

\* the token: randomUUID().replace(/-/g, '').substr(0, maxLen)
Token(uuid, maxLen) == Substr0(RemoveHyphens(uuid), maxLen)

\* path.join(root, token): node:path validates that every segment is a string
JoinChecked(root, token) ==
    IF root.t # "string" THEN Throw(InvalidArgType)
    ELSE Return(PathJoin(root.s, token))

\* a variant that replaces a root of the wrong type by the default root
GetTempPathLenient(tmpdir, maxLen, uuid) ==
    IF LeqZero(maxLen)
    THEN Throw(ErrV("RangeError", "Maximum characters must be greater than zero"))
    ELSE JoinChecked(IF tmpdir.t # "string" \/ Len(tmpdir.s) = 0
                     THEN __getTempDir ELSE tmpdir,
                     Token(uuid, maxLen))

\* a variant that tests maxLen < 0
GetTempPathStrictLess(tmpdir, maxLen, uuid) ==
    IF Truthy(tmpdir) /\ TypeOf(tmpdir) # "string"
    THEN Throw(ErrV("TypeError", "Expected type is string"))
    ELSE IF LeqZero(maxLen) /\ ToNumber(maxLen).n # 0
    THEN Throw(ErrV("RangeError", "Maximum characters must be greater than zero"))
    ELSE JoinChecked(IF isNullOrUndefined(tmpdir) \/ LengthOf(tmpdir) = NumV(0)
                     THEN __getTempDir ELSE tmpdir,
                     Token(uuid, maxLen))

\* a variant that trims the token one character short
GetTempPathShort(tmpdir, maxLen, uuid) ==
    IF Truthy(tmpdir) /\ TypeOf(tmpdir) # "string"
    THEN Throw(ErrV("TypeError", "Expected type is string"))
    ELSE IF LeqZero(maxLen)
    THEN Throw(ErrV("RangeError", "Maximum characters must be greater than zero"))
    ELSE JoinChecked(IF isNullOrUndefined(tmpdir) \/ LengthOf(tmpdir) = NumV(0)
                     THEN __getTempDir ELSE tmpdir,
                     IF maxLen.t = "undefined" THEN Token(uuid, maxLen)
                     ELSE Token(uuid, NumV(ToNumber(maxLen).n - 1)))

\* getTempPath(tmpdir, maxLen), with uuid the value randomUUID() returns
getTempPath(tmpdir, maxLen, uuid) ==
    IF Truthy(tmpdir) /\ TypeOf(tmpdir) # "string"
    THEN Throw(ErrV("TypeError", "Expected type is string"))
    ELSE IF LeqZero(maxLen)
    THEN Throw(ErrV("RangeError", "Maximum characters must be greater than zero"))
    ELSE JoinChecked(IF isNullOrUndefined(tmpdir) \/ LengthOf(tmpdir) = NumV(0)
                     THEN __getTempDir ELSE tmpdir,
                     Token(uuid, maxLen))

(***************************************************************************)
(* The filesystem: dirs is the set of directories and files maps each      *)
(* regular file to its content, both keyed by absolute normalized path.    *)
(* A filesystem operation yields [err, dirs, files]: err is NoErr and the  *)
(* namespace is updated, or err is the failure and nothing changes.        *)
(***************************************************************************)
KeySegs(p) ==
    NormSegs(Split(IF IsAbsolute(p) THEN p ELSE env.cwd \o <<Sep>> \o p), <<>>, FALSE)
SegsKey(segs) == <<Sep>> \o JoinSegs(segs)
Key(p) == SegsKey(KeySegs(p))
ParentKey(p) ==
    LET segs == KeySegs(p)
    IN  SegsKey(IF segs = <<>> THEN segs ELSE SubSeq(segs, 1, Len(segs) - 1))
\* the path itself and every ancestor of it
Chain(p) == LET segs == KeySegs(p) IN {SegsKey(SubSeq(segs, 1, i)) : i \in 0..Len(segs)}

FsOk(D, F) == [err |-> NoErr, dirs |-> D, files |-> F]
FsFail(code, syscall, p, D, F) == [err |-> FsErr(code, syscall, p), dirs |-> D, files |-> F]

\* mkdir(p, { recursive: true })
FsMkdirRecursive(p, D, F) ==
    IF Key(p) \in DOMAIN F THEN FsFail("EEXIST", "mkdir", p, D, F)
    ELSE IF \E q \in Chain(p) : q \in DOMAIN F THEN FsFail("ENOTDIR", "mkdir", p, D, F)
    ELSE FsOk(D \cup Chain(p), F)

\* mkdir(p)
FsMkdir(p, D, F) ==
    IF Key(p) \in D \/ Key(p) \in DOMAIN F THEN FsFail("EEXIST", "mkdir", p, D, F)
    ELSE IF ParentKey(p) \in DOMAIN F THEN FsFail("ENOTDIR", "mkdir", p, D, F)
    ELSE IF ParentKey(p) \notin D THEN FsFail("ENOENT", "mkdir", p, D, F)
    ELSE FsOk(D \cup {Key(p)}, F)

\* writeFile(p, '')
FsWriteFile(p, D, F) ==
    IF Key(p) \in D THEN FsFail("EISDIR", "open", p, D, F)
    ELSE IF ParentKey(p) \in DOMAIN F THEN FsFail("ENOTDIR", "open", p, D, F)
    ELSE IF ParentKey(p) \notin D THEN FsFail("ENOENT", "open", p, D, F)
    ELSE FsOk(D, [q \in DOMAIN F \cup {Key(p)} |-> IF q = Key(p) THEN <<>> ELSE F[q]])

\* causes of failure outside the namespace (permissions, quota); "" is none
Faults == {"", "EACCES"}

\* the operation op on path p, failing with `fault` when that is not ""
FsPerform(op, p, fault, D, F) ==
    IF fault # "" THEN FsFail(fault, IF op = "writeFile" THEN "open" ELSE "mkdir", p, D, F)
    ELSE CASE op = "mkdirp" -> FsMkdirRecursive(p, D, F)
           [] op = "mkdir" -> FsMkdir(p, D, F)
           [] op = "writeFile" -> FsWriteFile(p, D, F)

(***************************************************************************)
(* Events of a call, in the order they happen: an operation handed to the  *)
(* filesystem ("op"), its completion ("settle", err the failure or NoErr), *)
(* an invocation of the callback ("cb", with err and path its arguments:   *)
(* err is NoErr for null, path is empty for undefined), the callback       *)
(* raising an error ("cbthrow"), and the function returning to its caller  *)
(* ("return") or raising an error to it ("throw").                         *)
(***************************************************************************)
Ev(e, op, p, err) == [e |-> e, op |-> op, path |-> p, err |-> err]

\* a variant that says "file" only when asFile is the boolean true
CreationFailedStrict(asFile, cause) ==
    [name |-> "Error",
     message |-> IF asFile = BoolV(TRUE) THEN "temppath: Failed to create temporary file."
                 ELSE "temppath: Failed to create temporary directory.",
     code |-> "", syscall |-> "", path |-> <<>>, cause |-> cause]

\* a variant whose message follows the system call that failed
CreationFailedByCall(asFile, cause) ==
    [name |-> "Error",
     message |-> IF cause.syscall = "open" THEN "temppath: Failed to create temporary file."
                 ELSE "temppath: Failed to create temporary directory.",
     code |-> "", syscall |-> "", path |-> <<>>, cause |-> cause]

\* the error createTempPathSync raises for a failed filesystem operation
CreationFailed(asFile, cause) ==
    [name |-> "Error",
     message |-> IF Truthy(asFile) THEN "temppath: Failed to create temporary file."
                 ELSE "temppath: Failed to create temporary directory.",
     code |-> "", syscall |-> "", path |-> <<>>, cause |-> cause]

DefaultExt == <<".", "t", "m", "p">>

\* a variant that puts a "." before every extension that is not empty
ExtensionAlwaysDotted(options) ==
    LET ext == Get(options, "ext")
    IN  IF Truthy(ext) THEN <<".">> \o ext.s
        ELSE IF TypeOf(ext) = "string" /\ Len(ext.s) = 0 THEN ext.s
        ELSE DefaultExt

\* the extension createTempPath appends in file mode
extensionOf(options) ==
    LET ext == Get(options, "ext")
    IN  IF Truthy(ext)
        THEN (IF StartsWith(ext.s, ".") THEN ext.s ELSE <<".">> \o ext.s)
        ELSE IF TypeOf(ext) = "string" /\ Len(ext.s) = 0 THEN ext.s
        ELSE DefaultExt

\* the extension createTempPathSync appends in file mode
extensionOfSync(options) ==
    LET ext == Get(options, "ext")
    IN  IF Truthy(ext)
        THEN (IF StartsWith(ext.s, ".") THEN ext.s ELSE <<".">> \o ext.s)
        ELSE IF TypeOf(ext) = "string" /\ Len(ext.s) = 0 THEN ext.s
        ELSE DefaultExt

(***************************************************************************)
(* createTempPathSync(tmpdir, options).  f1 and f2 are the outside faults  *)
(* of the first and the second filesystem operation.  The result is        *)
(* [out, dirs, files, log].                                                *)
(***************************************************************************)
ResolveArgsSync(tmpdir, options) ==
    IF TypeOf(tmpdir) = "object" /\ ~IsArray(tmpdir) /\ isNullOrUndefined(options)
    THEN [tmpdir |-> Null, options |-> tmpdir]
    ELSE IF isNullOrUndefined(options)
    THEN [tmpdir |-> tmpdir, options |-> EmptyObj]
    ELSE [tmpdir |-> tmpdir, options |-> options]

SyncThrown(e) == [out |-> Throw(e), dirs |-> dirs, files |-> files, log |-> <<Ev("throw", "", <<>>, e)>>]

\* a variant that creates the parent without { recursive: true }
SyncBodyFlat(tmpdir, options, f1, f2) ==
    LET parent == PathDirname(tmpdir)
        m1 == FsPerform("mkdir", parent, f1, dirs, files)
        log1 == <<Ev("op", "mkdirp", parent, NoErr), Ev("settle", "mkdirp", parent, m1.err)>>
        asFile == Truthy(Get(options, "asFile"))
        target == IF asFile THEN tmpdir \o extensionOfSync(options) ELSE tmpdir
        op2 == IF asFile THEN "writeFile" ELSE "mkdir"
        m2 == FsPerform(op2, target, f2, m1.dirs, m1.files)
        log2 == log1 \o <<Ev("op", op2, target, NoErr), Ev("settle", op2, target, m2.err)>>
        failed(e, m, log) ==
            LET w == CreationFailed(Get(options, "asFile"), e)
            IN  [out |-> Throw(w), dirs |-> m.dirs, files |-> m.files,
                 log |-> Append(log, Ev("throw", "", <<>>, w))]
    IN  IF m1.err # NoErr THEN failed(m1.err, m1, log1)
        ELSE IF m2.err # NoErr THEN failed(m2.err, m2, log2)
        ELSE [out |-> Return(target), dirs |-> m2.dirs, files |-> m2.files,
              log |-> Append(log2, Ev("return", "", target, NoErr))]

\* a variant that creates the resolved path itself where the parent is due
SyncBodyDirThenFile(tmpdir, options, f1, f2) ==
    LET parent == tmpdir
        m1 == FsPerform("mkdirp", parent, f1, dirs, files)
        log1 == <<Ev("op", "mkdirp", parent, NoErr), Ev("settle", "mkdirp", parent, m1.err)>>
        asFile == Truthy(Get(options, "asFile"))
        target == IF asFile THEN tmpdir \o extensionOfSync(options) ELSE tmpdir
        op2 == IF asFile THEN "writeFile" ELSE "mkdir"
        m2 == FsPerform(op2, target, f2, m1.dirs, m1.files)
        log2 == log1 \o <<Ev("op", op2, target, NoErr), Ev("settle", op2, target, m2.err)>>
        failed(e, m, log) ==
            LET w == CreationFailed(Get(options, "asFile"), e)
            IN  [out |-> Throw(w), dirs |-> m.dirs, files |-> m.files,
                 log |-> Append(log, Ev("throw", "", <<>>, w))]
    IN  IF m1.err # NoErr THEN failed(m1.err, m1, log1)
        ELSE IF m2.err # NoErr THEN failed(m2.err, m2, log2)
        ELSE [out |-> Return(target), dirs |-> m2.dirs, files |-> m2.files,
              log |-> Append(log2, Ev("return", "", target, NoErr))]

\* a variant that tries the parent's creation a second time when it fails
SyncBodyRetry(tmpdir, options, f1, f2) ==
    LET parent == PathDirname(tmpdir)
        m0 == FsPerform("mkdirp", parent, f1, dirs, files)
        log0 == <<Ev("op", "mkdirp", parent, NoErr), Ev("settle", "mkdirp", parent, m0.err)>>
        m1 == IF m0.err = NoErr THEN m0 ELSE FsPerform("mkdirp", parent, "", m0.dirs, m0.files)
        log1 == IF m0.err = NoErr THEN log0
                ELSE log0 \o <<Ev("op", "mkdirp", parent, NoErr),
                               Ev("settle", "mkdirp", parent, m1.err)>>
        asFile == Truthy(Get(options, "asFile"))
        target == IF asFile THEN tmpdir \o extensionOfSync(options) ELSE tmpdir
        op2 == IF asFile THEN "writeFile" ELSE "mkdir"
        m2 == FsPerform(op2, target, f2, m1.dirs, m1.files)
        log2 == log1 \o <<Ev("op", op2, target, NoErr), Ev("settle", op2, target, m2.err)>>
        failed(e, m, log) ==
            LET w == CreationFailed(Get(options, "asFile"), e)
            IN  [out |-> Throw(w), dirs |-> m.dirs, files |-> m.files,
                 log |-> Append(log, Ev("throw", "", <<>>, w))]
    IN  IF m1.err # NoErr THEN failed(m1.err, m1, log1)
        ELSE IF m2.err # NoErr THEN failed(m2.err, m2, log2)
        ELSE [out |-> Return(target), dirs |-> m2.dirs, files |-> m2.files,
              log |-> Append(log2, Ev("return", "", target, NoErr))]

\* the try block of createTempPathSync with its catch clause
SyncBody(tmpdir, options, f1, f2) ==
    LET parent == PathDirname(tmpdir)
        m1 == FsPerform("mkdirp", parent, f1, dirs, files)
        log1 == <<Ev("op", "mkdirp", parent, NoErr), Ev("settle", "mkdirp", parent, m1.err)>>
        asFile == Truthy(Get(options, "asFile"))
        target == IF asFile THEN tmpdir \o extensionOfSync(options) ELSE tmpdir
        op2 == IF asFile THEN "writeFile" ELSE "mkdir"
        m2 == FsPerform(op2, target, f2, m1.dirs, m1.files)
        log2 == log1 \o <<Ev("op", op2, target, NoErr), Ev("settle", op2, target, m2.err)>>
        failed(e, m, log) ==
            LET w == CreationFailed(Get(options, "asFile"), e)
            IN  [out |-> Throw(w), dirs |-> m.dirs, files |-> m.files,
                 log |-> Append(log, Ev("throw", "", <<>>, w))]
    IN  IF m1.err # NoErr THEN failed(m1.err, m1, log1)
        ELSE IF m2.err # NoErr THEN failed(m2.err, m2, log2)
        ELSE [out |-> Return(target), dirs |-> m2.dirs, files |-> m2.files,
              log |-> Append(log2, Ev("return", "", target, NoErr))]

\* a variant whose try block also covers the resolution of the path
CreateTempPathSyncWrapAll(tmpdir, options, uuid, f1, f2) ==
    LET a == ResolveArgsSync(tmpdir, options)
        o == a.options
    IN  IF TypeOf(o) # "object"
        THEN SyncThrown(ErrV("TypeError", "The \"options\" argument must be an object"))
        ELSE IF ~CanRead(o) THEN SyncThrown(CannotRead)
        ELSE IF Truthy(Get(o, "ext")) /\ TypeOf(Get(o, "ext")) # "string"
        THEN SyncThrown(ErrV("TypeError", "Expected a string extension"))
        ELSE IF Truthy(Get(o, "maxLen")) /\ TypeOf(Get(o, "maxLen")) # "number"
        THEN SyncThrown(ErrV("TypeError", "Expected a number for maxLen"))
        ELSE LET r == getTempPath(a.tmpdir, Get(o, "maxLen"), uuid)
             IN  IF r.kind = "throw"
                 THEN SyncThrown(CreationFailed(Get(o, "asFile"), r.err))
                 ELSE SyncBody(r.value, o, f1, f2)

createTempPathSync(tmpdir, options, uuid, f1, f2) ==
    LET a == ResolveArgsSync(tmpdir, options)
        o == a.options
    IN  IF TypeOf(o) # "object"
        THEN SyncThrown(ErrV("TypeError", "The \"options\" argument must be an object"))
        ELSE IF ~CanRead(o) THEN SyncThrown(CannotRead)
        ELSE IF Truthy(Get(o, "ext")) /\ TypeOf(Get(o, "ext")) # "string"
        THEN SyncThrown(ErrV("TypeError", "Expected a string extension"))
        ELSE IF Truthy(Get(o, "maxLen")) /\ TypeOf(Get(o, "maxLen")) # "number"
        THEN SyncThrown(ErrV("TypeError", "Expected a number for maxLen"))
        ELSE LET r == getTempPath(a.tmpdir, Get(o, "maxLen"), uuid)
             IN  IF r.kind = "throw" THEN SyncThrown(r.err)
                 ELSE SyncBody(r.value, o, f1, f2)

(***************************************************************************)
(* createTempPath(tmpdir, options, callback): the part that runs before    *)
(* the function returns.  The result is [out, tmpdir, options, callback,   *)
(* log, pc]; pc is "parentPending" when the parent directory's creation    *)
(* has been handed to the filesystem and "thrown" when an error was raised.*)
(***************************************************************************)
\* a variant whose first case forgets the record
ResolveArgsAsyncDropRecord(tmpdir, options, callback) ==
    IF TypeOf(tmpdir) = "object" /\ ~IsArray(tmpdir)
       /\ TypeOf(options) = "function" /\ isNullOrUndefined(callback)
    THEN [tmpdir |-> Null, options |-> EmptyObj, callback |-> options]
    ELSE IF ~isNullOrUndefined(tmpdir) /\ TypeOf(options) = "function"
            /\ isNullOrUndefined(callback)
    THEN [tmpdir |-> tmpdir, options |-> EmptyObj, callback |-> options]
    ELSE IF TypeOf(tmpdir) = "function" /\ isNullOrUndefined(options)
            /\ isNullOrUndefined(callback)
    THEN [tmpdir |-> Null, options |-> EmptyObj, callback |-> tmpdir]
    ELSE IF isNullOrUndefined(options)
    THEN [tmpdir |-> tmpdir, options |-> EmptyObj, callback |-> callback]
    ELSE [tmpdir |-> tmpdir, options |-> options, callback |-> callback]

\* a variant whose third case leaves the callback in tmpdir
ResolveArgsAsyncKeepFirst(tmpdir, options, callback) ==
    IF TypeOf(tmpdir) = "object" /\ ~IsArray(tmpdir)
       /\ TypeOf(options) = "function" /\ isNullOrUndefined(callback)
    THEN [tmpdir |-> Null, options |-> tmpdir, callback |-> options]
    ELSE IF ~isNullOrUndefined(tmpdir) /\ TypeOf(options) = "function"
            /\ isNullOrUndefined(callback)
    THEN [tmpdir |-> tmpdir, options |-> EmptyObj, callback |-> options]
    ELSE IF TypeOf(tmpdir) = "function" /\ isNullOrUndefined(options)
            /\ isNullOrUndefined(callback)
    THEN [tmpdir |-> tmpdir, options |-> EmptyObj, callback |-> tmpdir]
    ELSE IF isNullOrUndefined(options)
    THEN [tmpdir |-> tmpdir, options |-> EmptyObj, callback |-> callback]
    ELSE [tmpdir |-> tmpdir, options |-> options, callback |-> callback]

\* a variant whose second case empties tmpdir as the first and third do
ResolveArgsAsyncDropRoot(tmpdir, options, callback) ==
    IF TypeOf(tmpdir) = "object" /\ ~IsArray(tmpdir)
       /\ TypeOf(options) = "function" /\ isNullOrUndefined(callback)
    THEN [tmpdir |-> Null, options |-> tmpdir, callback |-> options]
    ELSE IF ~isNullOrUndefined(tmpdir) /\ TypeOf(options) = "function"
            /\ isNullOrUndefined(callback)
    THEN [tmpdir |-> Null, options |-> EmptyObj, callback |-> options]
    ELSE IF TypeOf(tmpdir) = "function" /\ isNullOrUndefined(options)
            /\ isNullOrUndefined(callback)
    THEN [tmpdir |-> Null, options |-> EmptyObj, callback |-> tmpdir]
    ELSE IF isNullOrUndefined(options)
    THEN [tmpdir |-> tmpdir, options |-> EmptyObj, callback |-> callback]
    ELSE [tmpdir |-> tmpdir, options |-> options, callback |-> callback]

ResolveArgsAsync(tmpdir, options, callback) ==
    IF TypeOf(tmpdir) = "object" /\ ~IsArray(tmpdir)
       /\ TypeOf(options) = "function" /\ isNullOrUndefined(callback)
    THEN [tmpdir |-> Null, options |-> tmpdir, callback |-> options]
    ELSE IF ~isNullOrUndefined(tmpdir) /\ TypeOf(options) = "function"
            /\ isNullOrUndefined(callback)
    THEN [tmpdir |-> tmpdir, options |-> EmptyObj, callback |-> options]
    ELSE IF TypeOf(tmpdir) = "function" /\ isNullOrUndefined(options)
            /\ isNullOrUndefined(callback)
    THEN [tmpdir |-> Null, options |-> EmptyObj, callback |-> tmpdir]
    ELSE IF isNullOrUndefined(options)
    THEN [tmpdir |-> tmpdir, options |-> EmptyObj, callback |-> callback]
    ELSE [tmpdir |-> tmpdir, options |-> options, callback |-> callback]

AsyncThrown(a, e) ==
    [pc |-> "thrown", out |-> Throw(e), tmpdir |-> <<>>, options |-> a.options,
     callback |-> a.callback, log |-> <<Ev("throw", "", <<>>, e)>>]

\* the statements after the resolution of the path: the extension and the
\* start of the parent directory's creation
AsyncStart(a, resolved) ==
    [pc |-> "parentPending", out |-> Return(<<>>), tmpdir |-> resolved,
     options |-> a.options, callback |-> a.callback,
     log |-> <<Ev("op", "mkdirp", PathDirname(resolved), NoErr),
               Ev("return", "", <<>>, NoErr)>>]

\* a variant that hands an error of the resolver to the callback at once
CreateTempPathEnterEager(tmpdir, options, callback, uuid) ==
    LET a == ResolveArgsAsync(tmpdir, options, callback)
        o == a.options
    IN  IF ~Truthy(a.callback) \/ TypeOf(a.callback) # "function"
        THEN AsyncThrown(a, ErrV("TypeError", "The \"callback\" argument must be a function"))
        ELSE IF Truthy(o) /\ TypeOf(o) # "object"
        THEN AsyncThrown(a, ErrV("TypeError", "The \"options\" argument must be an object"))
        ELSE IF ~CanRead(o) THEN AsyncThrown(a, CannotRead)
        ELSE IF Truthy(Get(o, "ext")) /\ TypeOf(Get(o, "ext")) # "string"
        THEN AsyncThrown(a, ErrV("TypeError", "Expected a string extension"))
        ELSE IF Truthy(Get(o, "maxLen")) /\ TypeOf(Get(o, "maxLen")) # "number"
        THEN AsyncThrown(a, ErrV("TypeError", "Expected a number for maxLen"))
        ELSE LET r == getTempPath(a.tmpdir, Get(o, "maxLen"), uuid)
             IN  IF r.kind = "throw"
                 THEN [pc |-> "done", out |-> Return(<<>>), tmpdir |-> <<>>,
                       options |-> o, callback |-> a.callback,
                       log |-> <<Ev("cb", "", <<>>, r.err), Ev("return", "", <<>>, NoErr)>>]
                 ELSE AsyncStart(a, r.value)

\* a variant that tests the callback with && in place of ||
CreateTempPathEnterWeakTest(tmpdir, options, callback, uuid) ==
    LET a == ResolveArgsAsync(tmpdir, options, callback)
        o == a.options
    IN  IF ~Truthy(a.callback) /\ TypeOf(a.callback) # "function"
        THEN AsyncThrown(a, ErrV("TypeError", "The \"callback\" argument must be a function"))
        ELSE IF Truthy(o) /\ TypeOf(o) # "object"
        THEN AsyncThrown(a, ErrV("TypeError", "The \"options\" argument must be an object"))
        ELSE IF ~CanRead(o) THEN AsyncThrown(a, CannotRead)
        ELSE IF Truthy(Get(o, "ext")) /\ TypeOf(Get(o, "ext")) # "string"
        THEN AsyncThrown(a, ErrV("TypeError", "Expected a string extension"))
        ELSE IF Truthy(Get(o, "maxLen")) /\ TypeOf(Get(o, "maxLen")) # "number"
        THEN AsyncThrown(a, ErrV("TypeError", "Expected a number for maxLen"))
        ELSE LET r == getTempPath(a.tmpdir, Get(o, "maxLen"), uuid)
             IN  IF r.kind = "throw" THEN AsyncThrown(a, r.err)
                 ELSE AsyncStart(a, r.value)

CreateTempPathEnter(tmpdir, options, callback, uuid) ==
    LET a == ResolveArgsAsync(tmpdir, options, callback)
        o == a.options
    IN  IF ~Truthy(a.callback) \/ TypeOf(a.callback) # "function"
        THEN AsyncThrown(a, ErrV("TypeError", "The \"callback\" argument must be a function"))
        ELSE IF Truthy(o) /\ TypeOf(o) # "object"
        THEN AsyncThrown(a, ErrV("TypeError", "The \"options\" argument must be an object"))
        ELSE IF ~CanRead(o) THEN AsyncThrown(a, CannotRead)
        ELSE IF Truthy(Get(o, "ext")) /\ TypeOf(Get(o, "ext")) # "string"
        THEN AsyncThrown(a, ErrV("TypeError", "Expected a string extension"))
        ELSE IF Truthy(Get(o, "maxLen")) /\ TypeOf(Get(o, "maxLen")) # "number"
        THEN AsyncThrown(a, ErrV("TypeError", "Expected a number for maxLen"))
        ELSE LET r == getTempPath(a.tmpdir, Get(o, "maxLen"), uuid)
             IN  IF r.kind = "throw" THEN AsyncThrown(a, r.err)
                 ELSE AsyncStart(a, r.value)

(***************************************************************************)
(* The state.  calls[c] is the c-th call made to the module:               *)
(*   fn        the function called ("none" before the call is made)        *)
(*   args      its arguments, uuid the number of the value randomUUID()    *)
(*             gave it                                                     *)
(*   pc        where the call is: "idle", "thrown", "done", or, for        *)
(*             createTempPath, the promise whose settlement or reaction it *)
(*             waits for: "parentPending", "parentFulfilled",              *)
(*             "parentRejected", "targetPending", "targetFulfilled",       *)
(*             "thenRejected"; "unhandled" is a rejection nobody handles   *)
(*   out       what the function returned or raised                        *)
(*   tmpdir    the resolved path, target the path being created            *)
(*   options, callback   as left by the resolution of the arguments        *)
(*   err       the reason of the rejected promise                          *)
(*   log       the events of the call                                      *)
(***************************************************************************)
CallIds == 1..MaxCalls

NoOut == [kind |-> "none", value |-> <<>>, err |-> NoErr]

IdleCall ==
    [fn |-> "none", args |-> <<>>, uuid |-> 0, pc |-> "idle", out |-> NoOut,
     tmpdir |-> <<>>, target |-> <<>>, options |-> Undefined, callback |-> Undefined,
     err |-> NoErr, log |-> <<>>]

\* calls are numbered in the order they are made
IsNext(c) ==
    /\ calls[c].pc = "idle"
    /\ IF c = 1 THEN TRUE ELSE calls[c - 1].pc # "idle"

\* the error a callback raises when it fails
CallbackError == ErrV("Error", "raised by the callback")

(***************************************************************************)
(* The exported object.  An object is [extensible, props], props mapping   *)
(* each own property's name to its value and its writable and configurable *)
(* attributes.  temppath is the object the module exports; patch records   *)
(* the attempts made to change it: how many, and the last one with its     *)
(* result ("ok", "TypeError", or "ignored" for an assignment or deletion   *)
(* that fails silently in sloppy mode).                                    *)
(***************************************************************************)
Prop(v, w, c) == [value |-> v, writable |-> w, configurable |-> c]

ApiNames == {"getTempPath", "createTempPath", "createTempPathSync"}

\* the three functions, as values
ApiFunction(name) ==
    FunV(CASE name = "getTempPath" -> 11
           [] name = "createTempPath" -> 12
           [] name = "createTempPathSync" -> 13)

\* { getTempPath, createTempPath, createTempPathSync }
ApiLiteral ==
    [extensible |-> TRUE, props |-> [n \in ApiNames |-> Prop(ApiFunction(n), TRUE, TRUE)]]

\* Object.seal(o)
ObjectSeal(o) ==
    [extensible |-> FALSE,
     props |-> [n \in DOMAIN o.props |-> Prop(o.props[n].value, o.props[n].writable, FALSE)]]

\* Object.freeze(o)
ObjectFreeze(o) ==
    [extensible |-> FALSE,
     props |-> [n \in DOMAIN o.props |-> Prop(o.props[n].value, FALSE, FALSE)]]

\* Object.isFrozen(o)
ObjectIsFrozen(o) ==
    /\ ~o.extensible
    /\ \A n \in DOMAIN o.props : ~o.props[n].writable /\ ~o.props[n].configurable

\* the value given to module.exports
ModuleExports ==
    LET frozen == ObjectFreeze(ApiLiteral)
    IN  IF ObjectIsFrozen(frozen) THEN frozen ELSE ObjectFreeze(frozen)

Changed(o, result) == [obj |-> o, result |-> result]
Refused(o, strict) == Changed(o, IF strict THEN "TypeError" ELSE "ignored")
WithProp(o, name, prop) ==
    [o EXCEPT !.props = [n \in DOMAIN o.props \cup {name} |->
                            IF n = name THEN prop ELSE o.props[n]]]

\* o[name] = v
OrdinarySet(o, name, v, strict) ==
    IF name \in DOMAIN o.props
    THEN IF o.props[name].writable
         THEN Changed(WithProp(o, name, [o.props[name] EXCEPT !.value = v]), "ok")
         ELSE Refused(o, strict)
    ELSE IF o.extensible THEN Changed(WithProp(o, name, Prop(v, TRUE, TRUE)), "ok")
    ELSE Refused(o, strict)

\* Object.defineProperty(o, name, { value: v })
DefineOwnProperty(o, name, v) ==
    IF name \notin DOMAIN o.props
    THEN IF o.extensible THEN Changed(WithProp(o, name, Prop(v, FALSE, FALSE)), "ok")
         ELSE Changed(o, "TypeError")
    ELSE IF o.props[name].configurable \/ o.props[name].writable
         THEN Changed(WithProp(o, name, [o.props[name] EXCEPT !.value = v]), "ok")
    ELSE IF o.props[name].value = v THEN Changed(o, "ok")
    ELSE Changed(o, "TypeError")

\* delete o[name]
OrdinaryDelete(o, name, strict) ==
    IF name \notin DOMAIN o.props THEN Changed(o, "ok")
    ELSE IF o.props[name].configurable
    THEN Changed([o EXCEPT !.props = [n \in DOMAIN o.props \ {name} |-> o.props[n]]], "ok")
    ELSE Refused(o, strict)

NoPatch == [count |-> 0, op |-> "none", name |-> "", value |-> Undefined, result |-> "none"]

Patched(r, op, name, v) ==
    /\ patch.count < MaxPatches
    /\ temppath' = r.obj
    /\ patch' = [count |-> patch.count + 1, op |-> op, name |-> name, value |-> v,
                 result |-> r.result]
    /\ UNCHANGED <<env, dirs, files, calls>>

\* temppath[name] = v, in strict or sloppy code
AssignProperty(name, v, strict) ==
    Patched(OrdinarySet(temppath, name, v, strict), "assign", name, v)

\* Object.defineProperty(temppath, name, { value: v })
DefineProperty(name, v) ==
    Patched(DefineOwnProperty(temppath, name, v), "define", name, v)

\* delete temppath[name], in strict or sloppy code
DeleteProperty(name, strict) ==
    Patched(OrdinaryDelete(temppath, name, strict), "delete", name, Undefined)

InitWith(Envs) ==
    /\ env \in Envs
    /\ dirs = {<<Sep>>}
    /\ files = (<<Sep, "f">> :> <<"x">>)
    /\ calls = [c \in CallIds |-> IdleCall]
    /\ temppath = ModuleExports
    /\ patch = NoPatch

\* getTempPath(tmpdir, maxLen)
CallGetTempPath(c, tmpdir, maxLen, uuid) ==
    /\ IsNext(c)
    /\ LET r == getTempPath(tmpdir, maxLen, UUID(uuid))
       IN  calls' = [calls EXCEPT ![c] =
                [IdleCall EXCEPT !.fn = "getTempPath", !.args = <<tmpdir, maxLen>>,
                                 !.uuid = uuid, !.out = r,
                                 !.pc = IF r.kind = "throw" THEN "thrown" ELSE "done",
                                 !.tmpdir = r.value,
                                 !.log = <<Ev(r.kind, "", r.value, r.err)>>]]
    /\ UNCHANGED <<env, dirs, files, temppath, patch>>

\* createTempPathSync(tmpdir, options)
CallCreateTempPathSync(c, tmpdir, options, uuid, f1, f2) ==
    /\ IsNext(c)
    /\ LET r == createTempPathSync(tmpdir, options, UUID(uuid), f1, f2)
       IN  /\ calls' = [calls EXCEPT ![c] =
                [IdleCall EXCEPT !.fn = "createTempPathSync", !.args = <<tmpdir, options>>,
                                 !.uuid = uuid, !.out = r.out,
                                 !.pc = IF r.out.kind = "throw" THEN "thrown" ELSE "done",
                                 !.target = r.out.value,
                                 !.log = r.log]]
           /\ dirs' = r.dirs
           /\ files' = r.files
    /\ UNCHANGED <<env, temppath, patch>>

\* createTempPath(tmpdir, options, callback), up to its return
CallCreateTempPath(c, tmpdir, options, callback, uuid) ==
    /\ IsNext(c)
    /\ LET r == CreateTempPathEnter(tmpdir, options, callback, UUID(uuid))
       IN  calls' = [calls EXCEPT ![c] =
                [IdleCall EXCEPT !.fn = "createTempPath",
                                 !.args = <<tmpdir, options, callback>>,
                                 !.uuid = uuid, !.out = r.out, !.pc = r.pc,
                                 !.tmpdir = r.tmpdir, !.options = r.options,
                                 !.callback = r.callback, !.log = r.log]]
    /\ UNCHANGED <<env, dirs, files, temppath, patch>>

\* a variant whose fulfilment handler also runs when the parent's creation fails
ParentSettlesEitherWay(c, fault) ==
    /\ calls[c].pc = "parentPending"
    /\ \E parent \in {PathDirname(calls[c].tmpdir)} :
       \E m \in {FsPerform("mkdirp", parent, fault, dirs, files)} :
           /\ dirs' = m.dirs
           /\ files' = m.files
           /\ calls' = [calls EXCEPT
                  ![c].pc = "parentFulfilled",
                  ![c].err = m.err,
                  ![c].log = Append(@, Ev("settle", "mkdirp", parent, m.err))]
    /\ UNCHANGED <<env, temppath, patch>>

\* the filesystem completes fs.promises.mkdir(path.dirname(tmpdir), { recursive: true })
ParentSettles(c, fault) ==
    /\ calls[c].pc = "parentPending"
    /\ \E parent \in {PathDirname(calls[c].tmpdir)} :
       \E m \in {FsPerform("mkdirp", parent, fault, dirs, files)} :
           /\ dirs' = m.dirs
           /\ files' = m.files
           /\ calls' = [calls EXCEPT
                  ![c].pc = IF m.err = NoErr THEN "parentFulfilled" ELSE "parentRejected",
                  ![c].err = m.err,
                  ![c].log = Append(@, Ev("settle", "mkdirp", parent, m.err))]
    /\ UNCHANGED <<env, temppath, patch>>

\* a variant that writes the file at the resolved path, without the extension
TargetOpBare(call) ==
    IF Truthy(Get(call.options, "asFile"))
    THEN [op |-> "writeFile", path |-> call.tmpdir]
    ELSE [op |-> "mkdir", path |-> call.tmpdir]

\* a variant that appends the extension to the path of a directory too
TargetOpSuffixed(call) ==
    IF Truthy(Get(call.options, "asFile"))
    THEN [op |-> "writeFile", path |-> call.tmpdir \o extensionOf(call.options)]
    ELSE [op |-> "mkdir", path |-> call.tmpdir \o extensionOf(call.options)]

\* a variant that creates the directory with { recursive: true } as well
TargetOpRecursive(call) ==
    IF Truthy(Get(call.options, "asFile"))
    THEN [op |-> "writeFile", path |-> call.tmpdir \o extensionOf(call.options)]
    ELSE [op |-> "mkdirp", path |-> call.tmpdir]

\* the operation the fulfilment handler of the parent's creation starts
TargetOp(call) ==
    IF Truthy(Get(call.options, "asFile"))
    THEN [op |-> "writeFile", path |-> call.tmpdir \o extensionOf(call.options)]
    ELSE [op |-> "mkdir", path |-> call.tmpdir]

\* .then(function () { ... }) of the parent's creation
OnParentFulfilled(c) ==
    /\ calls[c].pc = "parentFulfilled"
    /\ LET t == TargetOp(calls[c])
       IN  calls' = [calls EXCEPT ![c].pc = "targetPending",
                                  ![c].target = t.path,
                                  ![c].log = Append(@, Ev("op", t.op, t.path, NoErr))]
    /\ UNCHANGED <<env, dirs, files, temppath, patch>>

\* the events of callback(err, path), whether it raises or not
Invoke(err, p, throws) ==
    <<Ev("cb", "", p, err)>>
    \o (IF throws THEN <<Ev("cbthrow", "", <<>>, CallbackError)>> ELSE <<>>)

\* a variant of the outer .catch that drops the error
OnParentRejectedSilent(c, throws) ==
    /\ calls[c].pc = "parentRejected"
    /\ calls' = [calls EXCEPT ![c].pc = IF throws THEN "unhandled" ELSE "done"]
    /\ UNCHANGED <<env, dirs, files, temppath, patch>>

\* .catch(err => callback(err)) of the outer chain
OnParentRejected(c, throws) ==
    /\ calls[c].pc = "parentRejected"
    /\ calls' = [calls EXCEPT ![c].pc = IF throws THEN "unhandled" ELSE "done",
                              ![c].log = @ \o Invoke(calls[c].err, <<>>, throws)]
    /\ UNCHANGED <<env, dirs, files, temppath, patch>>

\* the filesystem completes fs.promises.mkdir(tmpdir) or fs.promises.writeFile(filename, '')
TargetSettles(c, fault) ==
    /\ calls[c].pc = "targetPending"
    /\ \E t \in {TargetOp(calls[c])} :
       \E m \in {FsPerform(t.op, t.path, fault, dirs, files)} :
           /\ dirs' = m.dirs
           /\ files' = m.files
           /\ calls' = [calls EXCEPT
                  ![c].pc = IF m.err = NoErr THEN "targetFulfilled" ELSE "thenRejected",
                  ![c].err = m.err,
                  ![c].log = Append(@, Ev("settle", t.op, t.path, m.err))]
    /\ UNCHANGED <<env, temppath, patch>>

\* .then(() => callback(null, filename)) and .then(() => callback(null, tmpdir)):
\* an error raised by the callback rejects the promise .then returned
OnTargetFulfilled(c, throws) ==
    /\ calls[c].pc = "targetFulfilled"
    /\ calls' = [calls EXCEPT ![c].pc = IF throws THEN "thenRejected" ELSE "done",
                              ![c].err = IF throws THEN CallbackError ELSE NoErr,
                              ![c].log = @ \o Invoke(NoErr, calls[c].target, throws)]
    /\ UNCHANGED <<env, dirs, files, temppath, patch>>

\* a variant of the inner .catch that wraps the error as createTempPathSync does
OnThenRejectedWrapped(c, throws) ==
    /\ calls[c].pc = "thenRejected"
    /\ calls' = [calls EXCEPT
           ![c].pc = IF throws THEN "unhandled" ELSE "done",
           ![c].log = @ \o Invoke(CreationFailed(Get(calls[c].options, "asFile"),
                                                 calls[c].err), <<>>, throws)]
    /\ UNCHANGED <<env, dirs, files, temppath, patch>>

\* .catch(err => callback(err)) of the inner chains
OnThenRejected(c, throws) ==
    /\ calls[c].pc = "thenRejected"
    /\ calls' = [calls EXCEPT ![c].pc = IF throws THEN "unhandled" ELSE "done",
                              ![c].log = @ \o Invoke(calls[c].err, <<>>, throws)]
    /\ UNCHANGED <<env, dirs, files, temppath, patch>>

(***************************************************************************)
(* Inputs.                                                                 *)
(***************************************************************************)
Callback == FunV(1)

\* environments: every variable unset, empty or set, os.tmpdir() empty or not
AllEnvs ==
    [TMPDIR : {Undefined, StrV(<<>>), StrV(<<Sep, "a">>)},
     TMP : {Undefined, StrV(<<>>), StrV(<<Sep, "b">>)},
     TEMP : {Undefined, StrV(<<>>), StrV(<<Sep, "d">>)},
     osTmp : {<<>>, <<Sep, "o">>},
     cwd : {<<Sep, "c">>}]

OneEnv ==
    {e \in AllEnvs : e.TMPDIR = StrV(<<Sep, "a">>) /\ e.TMP = Undefined
                     /\ e.TEMP = Undefined /\ e.osTmp = <<Sep, "o">>}

\* root directories: unset, empty, absolute, with a trailing separator,
\* relative, under a regular file, and values that are not strings
StringRoots ==
    {StrV(<<Sep, "t">>), StrV(<<Sep, "t", Sep>>), StrV(<<"r">>), StrV(<<Sep, "f">>)}
EmptyRoots == {Undefined, Null, StrV(<<>>)}
OtherRoots ==
    {ArrV(<<"e">>), ArrV(<<>>), EmptyObj, NumV(5), NumV(0), BoolV(TRUE), BoolV(FALSE),
     NaNV, Callback}
RootArgs == EmptyRoots \cup StringRoots \cup OtherRoots

\* maximum lengths: omitted, every integer from -2 to beyond a full token,
\* and values that are not numbers
MaxLenArgs ==
    {Undefined, Null, NaNV, StrV(<<>>), StrV(<<"5">>), StrV(<<"x">>), BoolV(FALSE),
     BoolV(TRUE)}
    \cup {NumV(n) : n \in -2..(TokenLen + MaxOver)}

\* options records
AsFileArgs == {Undefined, BoolV(TRUE), BoolV(FALSE), NumV(1)}
ExtArgs == {Undefined, StrV(<<>>), StrV(<<"x">>), StrV(<<".", "x">>), NumV(5)}
OptMaxLenArgs == {Undefined, NumV(-2), NumV(0), NumV(1), NumV(TokenLen + MaxOver), StrV(<<"5">>)}
OptionRecords == {ObjV(a, e, m) : a \in AsFileArgs, e \in ExtArgs, m \in OptMaxLenArgs}
OptionArgs ==
    OptionRecords
    \cup {Undefined, Null, NumV(5), NumV(0), StrV(<<"x">>), BoolV(FALSE), ArrV(<<>>), Callback}
CreateRootArgs ==
    {Undefined, Null, StrV(<<>>), StrV(<<Sep, "t">>), StrV(<<Sep, "f">>), ArrV(<<"e">>),
     NumV(0), ObjV(BoolV(TRUE), StrV(<<"x">>), Undefined), Callback}
CallbackArgs == {Undefined, Callback, NumV(1)}

(***************************************************************************)
(* The steps of the job queue and of the filesystem for call c.            *)
(***************************************************************************)
Progress(c) ==
    \/ \E fault \in Faults : ParentSettles(c, fault)
    \/ OnParentFulfilled(c)
    \/ \E throws \in BOOLEAN : OnParentRejected(c, throws)
    \/ \E fault \in Faults : TargetSettles(c, fault)
    \/ \E throws \in BOOLEAN : OnTargetFulfilled(c, throws)
    \/ \E throws \in BOOLEAN : OnThenRejected(c, throws)

(***************************************************************************)
(* ArgSpec: one call, with arguments of every shape.                       *)
(***************************************************************************)
ArgInit == InitWith(OneEnv)

ArgNext ==
    \/ \E tmpdir \in RootArgs, maxLen \in MaxLenArgs, uuid \in UUIDIds :
          CallGetTempPath(1, tmpdir, maxLen, uuid)
    \/ \E tmpdir \in CreateRootArgs, options \in OptionArgs, uuid \in UUIDIds,
          f1 \in Faults, f2 \in Faults :
          CallCreateTempPathSync(1, tmpdir, options, uuid, f1, f2)
    \/ \E tmpdir \in CreateRootArgs, options \in OptionArgs, callback \in CallbackArgs,
          uuid \in UUIDIds :
          CallCreateTempPath(1, tmpdir, options, callback, uuid)
    \/ Progress(1)

ArgSpec == ArgInit /\ [][ArgNext]_vars

(***************************************************************************)
(* EnvSpec: one call of getTempPath in every environment.                  *)
(***************************************************************************)
EnvInit == InitWith(AllEnvs)

EnvNext ==
    \E tmpdir \in EmptyRoots \cup {StrV(<<Sep, "t">>)}, maxLen \in {Undefined, NumV(3)},
       uuid \in UUIDIds :
       CallGetTempPath(1, tmpdir, maxLen, uuid)

EnvSpec == EnvInit /\ [][EnvNext]_vars

(***************************************************************************)
(* RootSpec: one call of getTempPath without a root directory, in          *)
(* environments whose variables hold absolute values, relative values, or  *)
(* are unset.  process.env hands over the value of a variable as it is.    *)
(***************************************************************************)
AnyEnvs ==
    [TMPDIR : {Undefined, StrV(<<Sep, "a">>), StrV(<<"r">>)},
     TMP : {Undefined, StrV(<<Sep, "b">>), StrV(<<"r", Sep, "s">>)},
     TEMP : {Undefined, StrV(<<Sep, "d">>), StrV(<<".">>)},
     osTmp : {<<>>, <<Sep, "o">>},
     cwd : {<<Sep, "c">>}]

RootInit == InitWith(AnyEnvs)

RootNext ==
    \E tmpdir \in EmptyRoots, maxLen \in {Undefined, NumV(3)}, uuid \in UUIDIds :
       CallGetTempPath(1, tmpdir, maxLen, uuid)

RootSpec == RootInit /\ [][RootNext]_vars

(***************************************************************************)
(* PairSpec: MaxCalls calls of getTempPath, among them calls with the same *)
(* arguments, for values of randomUUID() that are equal, that differ from  *)
(* the first digit on, and that differ in the last digit only.             *)
(***************************************************************************)
PairRoots == {Undefined, StrV(<<Sep, "t">>)}
PairMaxLens == {Undefined, NumV(1), NumV(TokenLen - 1), NumV(TokenLen)}

PairInit == InitWith(OneEnv)

PairNext ==
    \E c \in CallIds, tmpdir \in PairRoots, maxLen \in PairMaxLens,
       uuid \in UUIDIds \cup TwinIds :
       CallGetTempPath(c, tmpdir, maxLen, uuid)

PairSpec == PairInit /\ [][PairNext]_vars

(***************************************************************************)
(* ShapeSpec: one call of createTempPath or createTempPathSync in each of  *)
(* the forms their callers use: (record, callback), (callback),            *)
(* (rootDir, callback), (rootDir, record, callback), and (), (record),     *)
(* (rootDir), (rootDir, record); in two environments, one with TMPDIR set  *)
(* and one that falls back to os.tmpdir().                                 *)
(***************************************************************************)
ShapeEnvs ==
    {e \in AllEnvs : e.TMPDIR \in {Undefined, StrV(<<Sep, "a">>)} /\ e.TMP = Undefined
                      /\ e.TEMP = Undefined /\ e.osTmp = <<Sep, "o">>}

\* valid records: every way to give or omit asFile, ext and maxLen
ShapeRecords ==
    {ObjV(a, e, m) : a \in {Undefined, BoolV(TRUE), BoolV(FALSE)},
                     e \in {Undefined, StrV(<<>>), StrV(<<"x">>), StrV(<<".", "x">>)},
                     m \in {Undefined, NumV(1), NumV(TokenLen + MaxOver)}}

\* roots: present, with a trailing separator, relative, absent with an
\* absent parent, and a regular file
ShapeRoots ==
    {StrV(<<Sep, "t">>), StrV(<<Sep, "t", Sep>>), StrV(<<"r">>),
     StrV(<<Sep, "n", Sep, "m">>), StrV(<<Sep, "f">>)}

Absent == {Undefined, Null}

ShapeAsyncArgs ==
    {<<r, Callback, n>> : r \in ShapeRecords, n \in Absent}
    \cup {<<Callback, u, n>> : u \in Absent, n \in Absent}
    \cup {<<d, Callback, n>> : d \in ShapeRoots, n \in Absent}
    \cup {<<d, r, Callback>> : d \in {StrV(<<Sep, "t">>)}, r \in ShapeRecords}

ShapeSyncArgs ==
    {<<u, n>> : u \in Absent, n \in Absent}
    \cup {<<r, n>> : r \in ShapeRecords, n \in Absent}
    \cup {<<d, n>> : d \in ShapeRoots, n \in Absent}
    \cup {<<d, r>> : d \in ShapeRoots \cup Absent, r \in ShapeRecords}

ShapeInit == InitWith(ShapeEnvs)

ShapeNext ==
    \/ \E a \in ShapeAsyncArgs, uuid \in UUIDIds :
          CallCreateTempPath(1, a[1], a[2], a[3], uuid)
    \/ \E a \in ShapeSyncArgs, uuid \in UUIDIds, f1 \in Faults, f2 \in Faults :
          CallCreateTempPathSync(1, a[1], a[2], uuid, f1, f2)
    \/ Progress(1)

ShapeSpec == ShapeInit /\ [][ShapeNext]_vars

(***************************************************************************)
(* FieldSpec: one call of createTempPath or createTempPathSync with a root *)
(* directory and a record whose ext and maxLen take values of every type,  *)
(* truthy and falsy.                                                       *)
(***************************************************************************)
FieldExts ==
    {Undefined, Null, StrV(<<>>), StrV(<<"x">>), StrV(<<".", "x">>), StrV(<<".">>),
     NumV(0), NumV(5), BoolV(FALSE), BoolV(TRUE)}
FieldMaxLens ==
    {Undefined, Null, NumV(2), StrV(<<>>), StrV(<<"5">>), BoolV(FALSE), BoolV(TRUE)}
FieldRecords ==
    {ObjV(a, e, m) : a \in {Undefined, BoolV(TRUE)}, e \in FieldExts, m \in FieldMaxLens}
FieldRoot == StrV(<<Sep, "t">>)

FieldInit == InitWith(OneEnv)

FieldNext ==
    \/ \E r \in FieldRecords, uuid \in UUIDIds :
          CallCreateTempPath(1, FieldRoot, r, Callback, uuid)
    \/ \E r \in FieldRecords, uuid \in UUIDIds, f1 \in Faults, f2 \in Faults :
          CallCreateTempPathSync(1, FieldRoot, r, uuid, f1, f2)
    \/ Progress(1)

FieldSpec == FieldInit /\ [][FieldNext]_vars

(***************************************************************************)
(* ExportSpec: attempts to add, redefine, reassign and delete properties   *)
(* of the exported object.                                                 *)
(***************************************************************************)
PatchNames == ApiNames \cup {"foo"}
PatchValues == {StrV(<<"b", "a", "r">>), Callback} \cup {ApiFunction(n) : n \in ApiNames}

ExportInit == InitWith(OneEnv)

ExportNext ==
    \/ \E name \in PatchNames, v \in PatchValues, strict \in BOOLEAN :
          AssignProperty(name, v, strict)
    \/ \E name \in PatchNames, v \in PatchValues : DefineProperty(name, v)
    \/ \E name \in PatchNames, strict \in BOOLEAN : DeleteProperty(name, strict)

ExportSpec == ExportInit /\ [][ExportNext]_vars

(***************************************************************************)
(* EquivSpec: MaxCalls calls of createTempPathSync and createTempPath,     *)
(* among them calls of both forms with the same root directory, record and *)
(* value of randomUUID(), in directory mode and in file mode.              *)
(***************************************************************************)
EquivArgs ==
    {<<StrV(<<Sep, "t">>), ObjV(Undefined, Undefined, NumV(1))>>,
     <<StrV(<<Sep, "t">>), ObjV(BoolV(TRUE), StrV(<<"x">>), NumV(1))>>,
     <<Undefined, ObjV(BoolV(TRUE), Undefined, NumV(1))>>}

EquivInit == InitWith(OneEnv)

EquivNext ==
    \/ \E c \in CallIds, a \in EquivArgs, uuid \in UUIDIds, f1 \in Faults, f2 \in Faults :
          CallCreateTempPathSync(c, a[1], a[2], uuid, f1, f2)
    \/ \E c \in CallIds, a \in EquivArgs, uuid \in UUIDIds :
          CallCreateTempPath(c, a[1], a[2], Callback, uuid)
    \/ \E c \in CallIds : Progress(c)

EquivSpec == EquivInit /\ [][EquivNext]_vars

(***************************************************************************)
(* Spec: MaxCalls calls, of any of the three functions, whose filesystem   *)
(* operations and promise reactions interleave.                            *)
(***************************************************************************)
\* the calls of Spec ask for tokens of one character, which keeps paths short
FewAsyncArgs ==
    {<<StrV(<<Sep, "t">>), ObjV(Undefined, Undefined, NumV(1)), Callback>>,
     <<ObjV(BoolV(TRUE), StrV(<<"x">>), NumV(1)), Callback, Undefined>>,
     <<StrV(<<Sep, "t">>), ObjV(Undefined, Undefined, NumV(0)), Callback>>}

FewSyncArgs == {<<StrV(<<Sep, "t">>), ObjV(Undefined, Undefined, NumV(1))>>}

FewResolverArgs == {<<StrV(<<Sep, "t">>), NumV(1)>>}

Init == InitWith(OneEnv)

Next ==
    \/ \E c \in CallIds, a \in FewResolverArgs, uuid \in UUIDIds :
          CallGetTempPath(c, a[1], a[2], uuid)
    \/ \E c \in CallIds, a \in FewSyncArgs, uuid \in UUIDIds, f1 \in Faults, f2 \in Faults :
          CallCreateTempPathSync(c, a[1], a[2], uuid, f1, f2)
    \/ \E c \in CallIds, a \in FewAsyncArgs, uuid \in UUIDIds :
          CallCreateTempPath(c, a[1], a[2], a[3], uuid)
    \/ \E c \in CallIds : Progress(c)

Spec == Init /\ [][Next]_vars

\* every filesystem operation that was started completes, and every reaction
\* of a settled promise runs
FairSpec == Spec /\ \A c \in CallIds : WF_vars(Progress(c))

(***************************************************************************)
(* Vocabulary of the properties.                                           *)
(***************************************************************************)
IsAsync(k) == k.fn = "createTempPath"
IsSync(k) == k.fn = "createTempPathSync"
IsResolver(k) == k.fn = "getTempPath"

\* the positions of the events of kind e in a log
At(log, e) == {i \in 1..Len(log) : log[i].e = e}
\* the positions of the filesystem operations that failed
FailedAt(log) == {i \in At(log, "settle") : log[i].err # NoErr}

\* the call has come to its end: nothing more will happen for it
Ended(k) == k.pc \in {"done", "thrown", "unhandled"}

FileMessage == "temppath: Failed to create temporary file."
DirectoryMessage == "temppath: Failed to create temporary directory."

\* a value that is set and not empty, for an environment variable
SetNonEmpty(v) == v.t = "string" /\ Len(v.s) > 0

\* an integer maxLen
IsInt(v) == v.t = "number"

(***************************************************************************)
(* C1.  Over the whole execution of a createTempPath call that passed      *)
(* validation, the callback is invoked at most once, whatever the outcome  *)
(* of the filesystem operations and also when the callback itself raises   *)
(* an error.                                                               *)
(***************************************************************************)
C1_CallbackAtMostOnce ==
    \A c \in CallIds :
        IsAsync(calls[c]) => Cardinality(At(calls[c].log, "cb")) <= 1

(***************************************************************************)
(* C2.  Every createTempPath call that passed validation (its parent       *)
(* directory's creation is pending) eventually invokes its callback, and   *)
(* no such call ends without having invoked it, provided every filesystem  *)
(* operation completes and every promise reaction runs (FairSpec).         *)
(***************************************************************************)
C2_EventuallyCallback ==
    /\ \A c \in CallIds :
          (calls[c].pc = "parentPending") ~> (At(calls[c].log, "cb") # {})
    /\ [](\A c \in CallIds :
            (IsAsync(calls[c]) /\ calls[c].pc \in {"done", "unhandled"})
                => At(calls[c].log, "cb") # {})

C2_Witness ==
    \E c \in CallIds :
        /\ IsAsync(calls[c]) /\ calls[c].pc = "done"
        /\ \E i \in At(calls[c].log, "cb") : calls[c].log[i].err # NoErr
        /\ FailedAt(calls[c].log) # {}

(***************************************************************************)
(* C3.  The callback of createTempPath is never invoked before the call    *)
(* has returned to its caller: every invocation comes after the return, on *)
(* success and on a failure of the filesystem.                             *)
(***************************************************************************)
C3_NoCallbackBeforeReturn ==
    \A c \in CallIds :
        IsAsync(calls[c]) =>
            \A i \in At(calls[c].log, "cb") :
                \E j \in At(calls[c].log, "return") : j < i

C3_Witness ==
    \E c1, c2 \in CallIds :
        /\ IsAsync(calls[c1]) /\ IsAsync(calls[c2])
        /\ \E i \in At(calls[c1].log, "cb") : calls[c1].log[i].err = NoErr
        /\ \E i \in At(calls[c2].log, "cb") :
              calls[c2].log[i].err \in {calls[c2].log[j].err : j \in FailedAt(calls[c2].log)}

(***************************************************************************)
(* C4.  An error createTempPath or createTempPathSync raises for its       *)
(* arguments (TypeError, RangeError) is raised to the caller before any    *)
(* filesystem operation is started and is not wrapped; the callback is     *)
(* never invoked for it.  Conversely the only other error raised is the    *)
(* wrapped failure of a filesystem operation that createTempPathSync       *)
(* started, and the callback never receives a TypeError or RangeError.     *)
(***************************************************************************)
C4_ArgumentErrorsSynchronous ==
    \A c \in CallIds :
        LET k == calls[c] IN
        /\ (IsAsync(k) \/ IsSync(k)) /\ k.out.kind = "throw" =>
              \/ /\ k.out.err.name \in {"TypeError", "RangeError"}
                 /\ k.out.err.cause = NoErr
                 /\ k.log = <<Ev("throw", "", <<>>, k.out.err)>>
                 /\ k.pc = "thrown"
              \/ /\ IsSync(k)
                 /\ k.out.err.name = "Error"
                 /\ \E i \in FailedAt(k.log) : k.out.err.cause = k.log[i].err
        /\ IsAsync(k) =>
              /\ \A i \in At(k.log, "cb") :
                    k.log[i].err.name \notin {"TypeError", "RangeError"}
              /\ At(k.log, "op") = {} => k.out.kind = "throw"

C4_Witness ==
    \E c \in CallIds :
        /\ IsAsync(calls[c])
        /\ Ended(calls[c])
        /\ calls[c].args[3] = Callback
        /\ calls[c].out.err.name = "RangeError"
        /\ At(calls[c].log, "op") = {} /\ At(calls[c].log, "cb") = {}

(***************************************************************************)
(* C5.  In createTempPath a failed filesystem operation (the parent's      *)
(* creation, the target directory's creation or the file write) is the     *)
(* last operation of the call; the callback is invoked with that very      *)
(* error as its only argument, once, and never with a null error; and the  *)
(* call has returned without raising.                                      *)
(***************************************************************************)
C5_FailureDeliveredUndecorated ==
    \A c \in CallIds :
        LET k == calls[c] IN
        IsAsync(k) =>
            \A i \in FailedAt(k.log) :
                /\ \A j \in At(k.log, "op") : j < i
                /\ \A j \in At(k.log, "cb") :
                      k.log[j].err = k.log[i].err /\ k.log[j].path = <<>> /\ j > i
                /\ Cardinality(At(k.log, "cb")) <= 1
                /\ Ended(k) => Cardinality(At(k.log, "cb")) = 1
                /\ k.out.kind = "return" /\ At(k.log, "throw") = {}

C5_Witness ==
    \E c1, c2 \in CallIds :
        /\ IsAsync(calls[c1]) /\ IsAsync(calls[c2])
        /\ Ended(calls[c1]) /\ Ended(calls[c2])
        /\ \E i \in FailedAt(calls[c1].log) : calls[c1].log[i].op = "mkdirp"
        /\ \E i \in FailedAt(calls[c2].log) : calls[c2].log[i].op \in {"mkdir", "writeFile"}

(***************************************************************************)
(* The arguments of a creation call whose shape leaves no doubt about      *)
(* which is which: (rootDir, record[, callback]) and (record[, callback]). *)
(* NoShape stands for every other shape.                                   *)
(***************************************************************************)
NoShape == [root |-> Undefined, options |-> Undefined, callback |-> Undefined, plain |-> FALSE]

ShapeOf(k) ==
    IF IsSync(k) THEN
        IF k.args[2].t = "object" /\ k.args[1].t # "object"
        THEN [root |-> k.args[1], options |-> k.args[2], callback |-> Undefined, plain |-> TRUE]
        ELSE IF k.args[1].t = "object" /\ k.args[2].t = "undefined"
        THEN [root |-> Undefined, options |-> k.args[1], callback |-> Undefined, plain |-> TRUE]
        ELSE NoShape
    ELSE IF IsAsync(k) THEN
        IF k.args[2].t = "object" /\ k.args[1].t # "object" /\ k.args[3].t = "function"
        THEN [root |-> k.args[1], options |-> k.args[2], callback |-> k.args[3], plain |-> TRUE]
        ELSE IF k.args[1].t = "object" /\ k.args[2].t = "function" /\ k.args[3].t = "undefined"
        THEN [root |-> Undefined, options |-> k.args[1], callback |-> k.args[2], plain |-> TRUE]
        ELSE NoShape
    ELSE NoShape

(***************************************************************************)
(* C6.  In createTempPathSync every failure of a filesystem operation      *)
(* (parent directory, target directory, file write) ends the call: no      *)
(* further operation is started, no value is returned, and the error       *)
(* raised is a plain Error whose cause is the filesystem's error and whose *)
(* message says "file" exactly when options.asFile is truthy and           *)
(* "directory" otherwise.                                                  *)
(***************************************************************************)
C6_SyncFailureWrapped ==
    \A c \in CallIds :
        LET k == calls[c] IN
        IsSync(k) =>
            \A i \in FailedAt(k.log) :
                /\ \A j \in At(k.log, "op") : j < i
                /\ k.out.kind = "throw" /\ k.out.value = <<>>
                /\ At(k.log, "return") = {}
                /\ k.out.err.name = "Error"
                /\ k.out.err.cause = k.log[i].err
                /\ ShapeOf(k).plain =>
                      k.out.err.message =
                          IF Truthy(ShapeOf(k).options.asFile) THEN FileMessage
                          ELSE DirectoryMessage
                /\ k.args = <<Undefined, Undefined>> => k.out.err.message = DirectoryMessage

C6_Witness ==
    \E c \in CallIds :
        /\ IsSync(calls[c])
        /\ ShapeOf(calls[c]).plain
        /\ ShapeOf(calls[c]).options.asFile = NumV(1)
        /\ \E i \in FailedAt(calls[c].log) : calls[c].log[i].op = "writeFile"
        /\ calls[c].out.err.message = FileMessage

(***************************************************************************)
(* C7.  getTempPath raises a TypeError, and returns no path, for every     *)
(* rootDir that is not a string and not empty: for every truthy value that *)
(* is not a string, whatever maxLen is, and for every other value that is  *)
(* neither a string nor null nor undefined (0, false, NaN) when maxLen is  *)
(* omitted or an integer >= 1.                                             *)
(***************************************************************************)
C7_NonStringRootRejected ==
    \A c \in CallIds :
        LET k == calls[c] IN
        IsResolver(k) =>
            LET root == k.args[1]
                maxLen == k.args[2]
                rejected == /\ k.out.kind = "throw"
                            /\ k.out.err.name = "TypeError"
                            /\ k.out.value = <<>>
            IN  /\ (Truthy(root) /\ root.t # "string") => rejected
                /\ (root.t \notin {"string", "undefined", "null"}
                    /\ (maxLen = Undefined \/ (IsInt(maxLen) /\ maxLen.n >= 1))) => rejected

C7_Witness ==
    \E c \in CallIds :
        /\ IsResolver(calls[c])
        /\ calls[c].args[1] = ArrV(<<"e">>)
        /\ calls[c].out.kind = "throw"
        /\ calls[c].out.err.name = "TypeError"

(***************************************************************************)
(* C8, as stated.  getTempPath raises a RangeError for every integer       *)
(* maxLen <= 0, whatever rootDir is, and so do createTempPathSync and      *)
(* createTempPath when options.maxLen <= 0.                                *)
(***************************************************************************)
C8_Original ==
    \A c \in CallIds :
        LET k == calls[c] IN
        /\ (IsResolver(k) /\ IsInt(k.args[2]) /\ k.args[2].n <= 0) =>
              k.out.kind = "throw" /\ k.out.err.name = "RangeError"
        /\ (ShapeOf(k).plain /\ IsInt(ShapeOf(k).options.maxLen)
            /\ ShapeOf(k).options.maxLen.n <= 0) =>
              k.out.kind = "throw" /\ k.out.err.name = "RangeError"

(***************************************************************************)
(* C8, amended.  getTempPath raises a RangeError for every integer         *)
(* maxLen <= 0 whenever rootDir is unset, empty, a string or another falsy *)
(* value; for a truthy rootDir that is not a string the TypeError comes    *)
(* first.  The same RangeError, not wrapped, reaches the caller of         *)
(* createTempPathSync and createTempPath when options.maxLen <= 0 and the  *)
(* other arguments are valid (rootDir as above, extension absent or a      *)
(* string), before any filesystem operation.                               *)
(***************************************************************************)
C8_OutOfRange ==
    \A c \in CallIds :
        LET k == calls[c]
            outOfRange == /\ k.out.kind = "throw"
                          /\ k.out.err.name = "RangeError"
                          /\ k.out.err.cause = NoErr
                          /\ At(k.log, "op") = {}
        IN
        /\ (IsResolver(k) /\ IsInt(k.args[2]) /\ k.args[2].n <= 0) =>
              IF Truthy(k.args[1]) /\ k.args[1].t # "string"
              THEN k.out.kind = "throw" /\ k.out.err.name = "TypeError"
              ELSE outOfRange
        /\ (ShapeOf(k).plain /\ IsInt(ShapeOf(k).options.maxLen)
            /\ ShapeOf(k).options.maxLen.n <= 0
            /\ (ShapeOf(k).root.t = "string" \/ ~Truthy(ShapeOf(k).root))
            /\ (ShapeOf(k).options.ext.t = "string" \/ ~Truthy(ShapeOf(k).options.ext))) =>
              outOfRange

C8_Witness ==
    \E c \in CallIds :
        /\ IsAsync(calls[c])
        /\ ShapeOf(calls[c]).plain
        /\ ShapeOf(calls[c]).options.maxLen = NumV(0)
        /\ ShapeOf(calls[c]).options.asFile = BoolV(TRUE)
        /\ calls[c].out.err.name = "RangeError"

(***************************************************************************)
(* C9.  For every integer maxLen >= 1 and every root that is a string or   *)
(* unset, getTempPath returns a path whose last segment has exactly        *)
(* min(maxLen, 32) characters; with maxLen omitted it has 32.              *)
(***************************************************************************)
C9_TokenLength ==
    \A c \in CallIds :
        LET k == calls[c] IN
        (IsResolver(k) /\ k.args[1].t \in {"string", "undefined", "null"}) =>
            /\ (IsInt(k.args[2]) /\ k.args[2].n >= 1) =>
                  /\ k.out.kind = "return"
                  /\ Len(PathBasename(k.out.value)) = Min(k.args[2].n, TokenLen)
            /\ k.args[2] = Undefined =>
                  /\ k.out.kind = "return"
                  /\ Len(PathBasename(k.out.value)) = TokenLen

C9_Witness ==
    \E c \in CallIds :
        /\ IsResolver(calls[c])
        /\ calls[c].args[2] = NumV(TokenLen + 1)
        /\ calls[c].out.kind = "return"
        /\ Len(PathBasename(calls[c].out.value)) = TokenLen

(***************************************************************************)
(* C10.  When rootDir is unset or empty the path is resolved under         *)
(* TMPDIR if that is set and not empty, else under TMP if set and not      *)
(* empty, else under TEMP if set and not empty, else under os.tmpdir() if  *)
(* that is not empty, else under the tmp subdirectory of the current       *)
(* working directory; a given rootDir is used as it is.                    *)
(***************************************************************************)
ExpectedRoot ==
    IF SetNonEmpty(env.TMPDIR) THEN env.TMPDIR.s
    ELSE IF SetNonEmpty(env.TMP) THEN env.TMP.s
    ELSE IF SetNonEmpty(env.TEMP) THEN env.TEMP.s
    ELSE IF env.osTmp # <<>> THEN env.osTmp
    ELSE env.cwd \o <<Sep, "t", "m", "p">>

C10_RootPrecedence ==
    \A c \in CallIds :
        LET k == calls[c] IN
        IsResolver(k) =>
            /\ k.out.kind = "return"
            /\ PathDirname(k.out.value) =
                  IF k.args[1] \in {Undefined, Null, StrV(<<>>)} THEN ExpectedRoot
                  ELSE k.args[1].s

C10_Witness ==
    \E c \in CallIds :
        /\ IsResolver(calls[c])
        /\ calls[c].args[1] = StrV(<<>>)
        /\ env.TMPDIR = StrV(<<>>) /\ env.TMP = Undefined /\ env.TEMP = StrV(<<>>)
        /\ env.osTmp = <<>>
        /\ PathDirname(calls[c].out.value) = <<Sep, "c", Sep, "t", "m", "p">>

HeadOf(k) ==
    LET hex == SelectSeq(UUID(k.uuid), LAMBDA ch : ch # "-")
    IN  IF k.args[2] = Undefined THEN hex
        ELSE SubSeq(hex, 1, Min(k.args[2].n, TokenLen))

NormalizedExt(e) ==
    IF e = Undefined THEN <<".", "t", "m", "p">>
    ELSE IF e.s = <<>> THEN <<>>
    ELSE IF e.s[1] = "." THEN e.s
    ELSE <<".">> \o e.s

\* the length of the token a record asks for
TokenLenOf(r) == IF r.maxLen = Undefined THEN TokenLen ELSE Min(r.maxLen.n, TokenLen)

\* p and q name the same directory
SameDir(p, q) == Key(p) = Key(q)

NoValue(v) == v.t \in {"undefined", "null"}

\* the call's filesystem operations after the creation of the parent
TargetOps(k) == {i \in At(k.log, "op") : k.log[i].op # "mkdirp"}
\* the invocations of the callback that report success
SuccessAt(k) == {i \in At(k.log, "cb") : k.log[i].err = NoErr}

\* the call ended and none of its filesystem operations failed
Succeeded(k) == Ended(k) /\ FailedAt(k.log) = {} /\ k.out.kind = "return"

(***************************************************************************)
(* C12.  createTempPath(record, callback), with no third argument, takes   *)
(* the record as options and the function as callback and leaves rootDir   *)
(* unset: the parent it creates is the default root, the token has the     *)
(* length the record's maxLen asks for, a file with the record's extension *)
(* is written when asFile is true and a directory is made otherwise, and   *)
(* the callback receives the path of what was created.                     *)
(***************************************************************************)
C12_RecordThenCallback ==
    \A c \in CallIds :
        LET k == calls[c]
            r == k.args[1]
        IN  (IsAsync(k) /\ r.t = "object" /\ k.args[2].t = "function" /\ NoValue(k.args[3])) =>
            LET created == k.tmpdir \o (IF r.asFile = BoolV(TRUE) THEN NormalizedExt(r.ext)
                                        ELSE <<>>)
            IN  /\ k.out.kind = "return"
                /\ k.options = r /\ k.callback = k.args[2]
                /\ k.log[1] = Ev("op", "mkdirp", ExpectedRoot, NoErr)
                /\ PathDirname(k.tmpdir) = ExpectedRoot
                /\ Len(PathBasename(k.tmpdir)) = TokenLenOf(r)
                /\ \A i \in TargetOps(k) :
                      /\ k.log[i].op = IF r.asFile = BoolV(TRUE) THEN "writeFile" ELSE "mkdir"
                      /\ k.log[i].path = created
                /\ \A i \in SuccessAt(k) :
                      /\ k.log[i].path = created
                      /\ IF r.asFile = BoolV(TRUE)
                         THEN created \in DOMAIN files /\ k.tmpdir \notin dirs
                         ELSE created \in dirs
                /\ Succeeded(k) => SuccessAt(k) # {}

C12_Witness ==
    \E c \in CallIds :
        /\ IsAsync(calls[c]) /\ Succeeded(calls[c])
        /\ calls[c].args = <<ObjV(BoolV(TRUE), StrV(<<"x">>), NumV(1)), Callback, Undefined>>
        /\ \E i \in SuccessAt(calls[c]) :
              /\ Len(PathBasename(calls[c].log[i].path)) = 3
              /\ calls[c].log[i].path \in DOMAIN files

(***************************************************************************)
(* C13.  createTempPath(callback), the callback being the only argument,   *)
(* leaves rootDir unset and takes {} as options: it creates a directory    *)
(* under the default root, with a full token as its name, and the callback *)
(* receives (null, path), the parent of path being the default root.       *)
(***************************************************************************)
C13_CallbackOnly ==
    \A c \in CallIds :
        LET k == calls[c] IN
        (IsAsync(k) /\ k.args[1].t = "function" /\ NoValue(k.args[2]) /\ NoValue(k.args[3])) =>
            /\ k.out.kind = "return"
            /\ k.options = EmptyObj /\ k.callback = k.args[1]
            /\ k.log[1] = Ev("op", "mkdirp", ExpectedRoot, NoErr)
            /\ Len(PathBasename(k.tmpdir)) = TokenLen
            /\ \A i \in TargetOps(k) : k.log[i].op = "mkdir" /\ k.log[i].path = k.tmpdir
            /\ \A i \in SuccessAt(k) :
                  /\ k.log[i].path = k.tmpdir
                  /\ PathDirname(k.log[i].path) = ExpectedRoot
                  /\ k.log[i].path \in dirs
                  /\ k.log[i].path \notin DOMAIN files
            /\ Succeeded(k) => SuccessAt(k) # {}

C13_Witness ==
    \E c \in CallIds :
        /\ IsAsync(calls[c]) /\ Succeeded(calls[c])
        /\ calls[c].args = <<Callback, Undefined, Undefined>>
        /\ env.TMPDIR = Undefined
        /\ \E i \in SuccessAt(calls[c]) :
              PathDirname(calls[c].log[i].path) = env.osTmp

(***************************************************************************)
(* C14.  createTempPath(rootDir, callback), rootDir a string that is not   *)
(* empty and no third argument given, takes {} as options: it creates      *)
(* rootDir with the ancestors it lacks, then a directory, never a file,    *)
(* directly under rootDir, and the callback receives that directory's      *)
(* path.                                                                   *)
(***************************************************************************)
C14_RootThenCallback ==
    \A c \in CallIds :
        LET k == calls[c]
            root == k.args[1]
        IN  (IsAsync(k) /\ root.t = "string" /\ root.s # <<>>
             /\ k.args[2].t = "function" /\ NoValue(k.args[3])) =>
            /\ k.out.kind = "return"
            /\ k.options = EmptyObj /\ k.callback = k.args[2]
            /\ k.log[1].op = "mkdirp" /\ SameDir(k.log[1].path, root.s)
            /\ SameDir(PathDirname(k.tmpdir), root.s)
            /\ Len(PathBasename(k.tmpdir)) = TokenLen
            /\ \A i \in TargetOps(k) : k.log[i].op = "mkdir" /\ k.log[i].path = k.tmpdir
            /\ \A i \in SuccessAt(k) :
                  /\ k.log[i].path = k.tmpdir
                  /\ Key(k.tmpdir) \in dirs /\ Key(k.tmpdir) \notin DOMAIN files
                  /\ Key(root.s) \in dirs
            /\ Succeeded(k) => SuccessAt(k) # {}

C14_Witness ==
    \E c \in CallIds :
        /\ IsAsync(calls[c]) /\ Succeeded(calls[c])
        /\ calls[c].args = <<StrV(<<Sep, "n", Sep, "m">>), Callback, Null>>
        /\ {<<Sep, "n">>, <<Sep, "n", Sep, "m">>} \subseteq dirs
        /\ \E i \in SuccessAt(calls[c]) :
              PathDirname(calls[c].log[i].path) = <<Sep, "n", Sep, "m">>

(***************************************************************************)
(* C15.  createTempPath raises a TypeError, before any filesystem          *)
(* operation and without invoking anything, whenever the resolution of its *)
(* arguments leaves no callable callback: a third argument that is neither *)
(* absent nor a function; or no third argument and no function in second   *)
(* place, nor a function alone in first place.  This covers no arguments   *)
(* at all, a root directory alone, and (rootDir, options).                 *)
(***************************************************************************)
NoCallable(k) ==
    IF ~NoValue(k.args[3]) THEN k.args[3].t # "function"
    ELSE /\ k.args[2].t # "function"
         /\ ~(k.args[1].t = "function" /\ NoValue(k.args[2]))

C15_CallbackRequired ==
    \A c \in CallIds :
        LET k == calls[c] IN
        (IsAsync(k) /\ NoCallable(k)) =>
            /\ k.out.kind = "throw"
            /\ k.out.err.name = "TypeError"
            /\ k.out.err.message = "The \"callback\" argument must be a function"
            /\ k.pc = "thrown"
            /\ At(k.log, "op") = {} /\ At(k.log, "cb") = {}

C15_Witness ==
    \E c1 \in CallIds :
        /\ IsAsync(calls[c1])
        /\ calls[c1].args[1] = StrV(<<Sep, "t">>)
        /\ calls[c1].args[2].t = "object"
        /\ calls[c1].args[3] = NumV(1)
        /\ calls[c1].out.err.name = "TypeError"

(***************************************************************************)
(* C16.  createTempPath and createTempPathSync raise a TypeError whenever  *)
(* the options they are left with are a number, a string or a boolean,     *)
(* truthy or falsy.                                                        *)
(***************************************************************************)
Primitive(v) == v.t \in {"number", "string", "boolean", "nan"}

C16_NonRecordOptionsRejected ==
    \A c \in CallIds :
        LET k == calls[c] IN
        /\ (IsSync(k) /\ Primitive(k.args[2])) =>
              k.out.kind = "throw" /\ k.out.err.name = "TypeError"
        /\ (IsAsync(k) /\ Primitive(k.args[2]) /\ k.args[3].t = "function") =>
              k.out.kind = "throw" /\ k.out.err.name = "TypeError"

(***************************************************************************)
(* C17.  createTempPath and createTempPathSync raise a TypeError whenever  *)
(* options.ext is anything but undefined or a string, and whenever         *)
(* options.maxLen is anything but undefined or a number, for truthy and    *)
(* falsy values alike.                                                     *)
(***************************************************************************)
C17_FieldTypesRejected ==
    \A c \in CallIds :
        LET k == calls[c] IN
        ((IsSync(k) \/ IsAsync(k)) /\ k.args[2].t = "object"
         /\ \/ k.args[2].ext.t \notin {"undefined", "string"}
            \/ k.args[2].maxLen.t \notin {"undefined", "number"})
        => k.out.kind = "throw" /\ k.out.err.name = "TypeError"

(***************************************************************************)
(* C18.  In file mode both createTempPath and createTempPathSync append to *)
(* the resolved path ".tmp" when ext is absent, ext itself when it starts  *)
(* with ".", "." and ext when it is not empty and does not start with ".", *)
(* and nothing when ext is the empty string.  The suffix appended, given   *)
(* as ext, is appended unchanged.                                          *)
(***************************************************************************)
\* what a path has after the token in its last segment
SuffixOf(p, r) ==
    LET name == PathBasename(p) IN SubSeq(name, TokenLenOf(r) + 1, Len(name))

C18_ExtensionNormalized ==
    \A c \in CallIds :
        LET k == calls[c]
            r == k.args[2]
        IN  ((IsSync(k) \/ IsAsync(k)) /\ r.t = "object" /\ r.asFile = BoolV(TRUE)
             /\ r.ext.t \in {"undefined", "string"} /\ r.maxLen.t \in {"undefined", "number"}) =>
            /\ k.out.kind = "throw" => k.out.err.name = "Error"
            /\ \A i \in TargetOps(k) :
                  LET suffix == SuffixOf(k.log[i].path, r) IN
                  /\ k.log[i].op = "writeFile"
                  /\ suffix = NormalizedExt(r.ext)
                  /\ extensionOf(ObjV(r.asFile, StrV(suffix), r.maxLen)) = suffix
                  /\ extensionOfSync(ObjV(r.asFile, StrV(suffix), r.maxLen)) = suffix
            /\ (IsSync(k) /\ k.out.kind = "return") =>
                  SuffixOf(k.out.value, r) = NormalizedExt(r.ext)
            /\ \A i \in SuccessAt(k) : SuffixOf(k.log[i].path, r) = NormalizedExt(r.ext)
            /\ Succeeded(k) => TargetOps(k) # {}

C18_Witness ==
    \E c \in CallIds :
        /\ IsSync(calls[c])
        /\ calls[c].args[2] = ObjV(BoolV(TRUE), StrV(<<".", "x">>), NumV(2))
        /\ calls[c].out.kind = "return"
        /\ PathBasename(calls[c].out.value) = SubSeq(Token(UUID(calls[c].uuid), NumV(2)), 1, 2) \o <<".", "x">>

(***************************************************************************)
(* What a creation call was asked for, read off its arguments: the record  *)
(* given (in second place, or in first place when nothing but a callback   *)
(* follows), the root directory given, and from them the parent directory  *)
(* and the token of the path to create.                                    *)
(***************************************************************************)
RecordOf(k) ==
    IF k.args[2].t = "object" THEN k.args[2]
    ELSE IF k.args[1].t = "object" THEN k.args[1]
    ELSE EmptyObj

ExpectedParent(k) ==
    IF k.args[1].t = "string" /\ k.args[1].s # <<>> THEN k.args[1].s ELSE ExpectedRoot

ExpectedToken(k) ==
    SubSeq(SelectSeq(UUID(k.uuid), LAMBDA ch : ch # "-"), 1, TokenLenOf(RecordOf(k)))

\* the path getTempPath resolves for the call
ExpectedPath(k) == PathJoin(ExpectedParent(k), ExpectedToken(k))

\* the call's filesystem operations fail for outside reasons only, or
\* because the root directory given is a regular file
FailsForCause(k) ==
    \A i \in FailedAt(k.log) :
        k.log[i].err.code = "EACCES" \/ k.args[1] = StrV(<<Sep, "f">>)

\* createTempPathSync(null): null is taken for the record
NullAlone(k) == k.args[1] = Null /\ NoValue(k.args[2])

\* the paths the call reported as created
Reported(k) ==
    IF IsSync(k) THEN (IF k.out.kind = "return" THEN {k.out.value} ELSE {})
    ELSE {k.log[i].path : i \in SuccessAt(k)}

(***************************************************************************)
(* C19.  When createTempPathSync succeeds with asFile not set, the path it *)
(* returns is the resolved path (root joined with the token), a directory  *)
(* exists there, and its parent is the rootDir given, which exists with    *)
(* all its ancestors, or else the default root getTempPath selects.  The   *)
(* call fails only when a filesystem operation is refused, never because   *)
(* the root or its ancestors are absent (null as the only argument aside,  *)
(* which is taken for the record and raises a TypeError).                  *)
(***************************************************************************)
C19_SyncDirectoryCreated ==
    \A c \in CallIds :
        LET k == calls[c] IN
        (IsSync(k) /\ RecordOf(k).asFile # BoolV(TRUE)) =>
            /\ FailsForCause(k)
            /\ (FailedAt(k.log) = {} /\ ~NullAlone(k)) => k.out.kind = "return"
            /\ k.out.kind = "return" =>
                  /\ k.out.value = ExpectedPath(k)
                  /\ SameDir(PathDirname(k.out.value), ExpectedParent(k))
                  /\ Key(k.out.value) \in dirs
                  /\ Key(k.out.value) \notin DOMAIN files
                  /\ Chain(ExpectedParent(k)) \subseteq dirs

C19_Witness ==
    \E c \in CallIds :
        /\ IsSync(calls[c])
        /\ calls[c].args = <<StrV(<<Sep, "n", Sep, "m">>), Undefined>>
        /\ calls[c].out.kind = "return"
        /\ PathDirname(calls[c].out.value) = <<Sep, "n", Sep, "m">>
        /\ {<<Sep, "n">>, <<Sep, "n", Sep, "m">>, calls[c].out.value} \subseteq dirs

(***************************************************************************)
(* C20.  When createTempPath or createTempPathSync succeeds with asFile    *)
(* true, the path reported is the resolved path followed by the normalized *)
(* extension, an empty file exists there, no directory exists at the       *)
(* resolved path, and nothing was created but the parent with its          *)
(* ancestors and the file.  maxLen bounds the token; the extension comes   *)
(* on top of it.                                                           *)
(***************************************************************************)
C20_FileCreated ==
    \A c \in CallIds :
        LET k == calls[c]
            r == RecordOf(k)
        IN  ((IsSync(k) \/ IsAsync(k)) /\ r.asFile = BoolV(TRUE)) =>
            /\ FailsForCause(k)
            /\ (FailedAt(k.log) = {} /\ Ended(k)) => Reported(k) # {}
            /\ \A p \in Reported(k) :
                  /\ p = ExpectedPath(k) \o NormalizedExt(r.ext)
                  /\ Len(PathBasename(p)) = TokenLenOf(r) + Len(NormalizedExt(r.ext))
                  /\ Key(p) \in DOMAIN files /\ files[Key(p)] = <<>>
                  /\ Key(p) \notin dirs
                  /\ Key(ExpectedPath(k)) \notin dirs
                  /\ dirs = {<<Sep>>} \cup Chain(ExpectedParent(k))
                  /\ DOMAIN files = {<<Sep, "f">>, Key(p)}

C20_Witness ==
    \E c \in CallIds :
        /\ IsSync(calls[c])
        /\ calls[c].args = <<StrV(<<"r">>), ObjV(BoolV(TRUE), StrV(<<"x">>), NumV(1))>>
        /\ calls[c].out.kind = "return"
        /\ Len(calls[c].out.value) = 5
        /\ Key(calls[c].out.value) \in DOMAIN files

(***************************************************************************)
(* C21.  The exported object is immutable: after any sequence of attempts  *)
(* to add, redefine, reassign or delete a property, its properties are     *)
(* still exactly getTempPath, createTempPath and createTempPathSync with   *)
(* the original functions as values; an attempt to define a new property   *)
(* raises a TypeError, and no attempt that would change anything reports   *)
(* success.                                                                *)
(***************************************************************************)
C21_ExportsImmutable ==
    /\ DOMAIN temppath.props = {"getTempPath", "createTempPath", "createTempPathSync"}
    /\ temppath.props["getTempPath"].value = FunV(11)
    /\ temppath.props["createTempPath"].value = FunV(12)
    /\ temppath.props["createTempPathSync"].value = FunV(13)
    /\ (patch.op = "define" /\ patch.name \notin DOMAIN temppath.props) =>
          patch.result = "TypeError"
    /\ patch.result = "ok" =>
          \/ patch.op = "delete" /\ patch.name \notin DOMAIN temppath.props
          \/ patch.op = "define" /\ patch.name \in DOMAIN temppath.props
                /\ patch.value = temppath.props[patch.name].value

C21_Witness ==
    /\ patch.count >= 2
    /\ patch.op = "define" /\ patch.name = "foo" /\ patch.value = StrV(<<"b", "a", "r">>)
    /\ patch.result = "TypeError"

(***************************************************************************)
(* C22.  Within one createTempPath call the filesystem operations are      *)
(* strictly sequential: at every moment at most one operation of the call  *)
(* is in flight, and the target operation (mkdir of the resolved path, or  *)
(* writeFile) starts only after the parent directory's creation has        *)
(* completed without error.                                                *)
(***************************************************************************)
\* the operations of the call that are in flight after its first n events
InFlight(k, n) ==
    Cardinality({i \in At(k.log, "op") : i <= n})
        - Cardinality({i \in At(k.log, "settle") : i <= n})

C22_OperationsSequential ==
    \A c \in CallIds :
        LET k == calls[c] IN
        IsAsync(k) =>
            /\ \A n \in 0..Len(k.log) : InFlight(k, n) \in {0, 1}
            /\ \A i \in TargetOps(k) :
                  \E j \in At(k.log, "settle") :
                      /\ j < i
                      /\ k.log[j].op = "mkdirp"
                      /\ k.log[j].err = NoErr
            /\ \A j \in FailedAt(k.log) : \A i \in At(k.log, "op") : i < j

C22_Witness ==
    \E c1, c2 \in CallIds :
        /\ c1 # c2
        /\ IsAsync(calls[c1]) /\ IsAsync(calls[c2])
        /\ calls[c1].pc = "targetPending" /\ InFlight(calls[c1], Len(calls[c1].log)) = 1
        /\ calls[c2].pc = "parentPending" /\ InFlight(calls[c2], Len(calls[c2].log)) = 1

(***************************************************************************)
(* C23.  createTempPathSync and createTempPath do the same thing for the   *)
(* same root directory, record and token.  Both start with the same        *)
(* operation; as long as their operations had the same outcomes, the next  *)
(* operation each issues is the same, on the same path.  Each succeeds     *)
(* exactly when none of its operations failed, and then the path           *)
(* createTempPathSync returns and the path createTempPath hands to its     *)
(* callback are the path of the last operation; so for equal outcomes the  *)
(* two report the same path.  On a failure createTempPathSync raises an    *)
(* error whose cause is the filesystem's error, and createTempPath hands   *)
(* that error itself to the callback.                                      *)
(***************************************************************************)
\* the operations the call issued, and the outcomes of those that completed
Issued(k) ==
    [n \in 1..Cardinality(At(k.log, "op")) |->
        LET i == CHOOSE i \in At(k.log, "op") :
                    Cardinality({j \in At(k.log, "op") : j <= i}) = n
        IN  <<k.log[i].op, k.log[i].path>>]

Outcomes(k) ==
    [n \in 1..Cardinality(At(k.log, "settle")) |->
        LET i == CHOOSE i \in At(k.log, "settle") :
                    Cardinality({j \in At(k.log, "settle") : j <= i}) = n
        IN  k.log[i].err]

\* the first n outcomes of both calls are known and equal
SameOutcomes(k1, k2, n) ==
    /\ n <= Len(Outcomes(k1)) /\ n <= Len(Outcomes(k2))
    /\ SubSeq(Outcomes(k1), 1, n) = SubSeq(Outcomes(k2), 1, n)

C23_FormsEquivalent ==
    /\ \A c \in CallIds :
          LET k == calls[c] IN
          ((IsSync(k) \/ IsAsync(k)) /\ Ended(k) /\ Len(Issued(k)) > 0) =>
              /\ Reported(k) # {} <=> FailedAt(k.log) = {}
              /\ Reported(k) \subseteq {Issued(k)[Len(Issued(k))][2]}
              /\ \A i \in FailedAt(k.log) :
                    IF IsSync(k)
                    THEN k.out.kind = "throw" /\ k.out.err.cause = k.log[i].err
                    ELSE /\ k.out.kind = "return"
                         /\ \E j \in At(k.log, "cb") : k.log[j].err = k.log[i].err
    /\ \A c1, c2 \in CallIds :
          LET k1 == calls[c1]
              k2 == calls[c2]
          IN  (/\ IsSync(k1) /\ IsAsync(k2)
               /\ k1.args[1] = k2.args[1] /\ k1.args[2] = k2.args[2]
               /\ k1.uuid = k2.uuid) =>
              /\ \A n \in 1..2 :
                    (/\ n <= Len(Issued(k1)) /\ n <= Len(Issued(k2))
                     /\ SameOutcomes(k1, k2, n - 1))
                    => Issued(k1)[n] = Issued(k2)[n]
              /\ (Ended(k1) /\ Ended(k2) /\ Outcomes(k1) = Outcomes(k2)) =>
                    /\ Issued(k1) = Issued(k2)
                    /\ Reported(k1) = Reported(k2)

C23_Witness ==
    \E c1, c2 \in CallIds :
        /\ IsSync(calls[c1]) /\ IsAsync(calls[c2])
        /\ calls[c1].args[2].asFile = BoolV(TRUE)
        /\ calls[c1].args[1] = calls[c2].args[1] /\ calls[c1].args[2] = calls[c2].args[2]
        /\ calls[c1].uuid = calls[c2].uuid
        /\ Ended(calls[c1]) /\ Ended(calls[c2])
        /\ Len(Outcomes(calls[c1])) = 2 /\ Outcomes(calls[c1]) = Outcomes(calls[c2])
        /\ Reported(calls[c1]) # {} /\ Reported(calls[c1]) = Reported(calls[c2])

(***************************************************************************)
(* C24.  When getTempPath is called without a root directory, the path it  *)
(* returns is absolute, whichever of TMPDIR, TMP, TEMP, os.tmpdir() and    *)
(* the current working directory supplied the root.                        *)
(***************************************************************************)
C24_AbsoluteWhenOmitted ==
    \A c \in CallIds :
        LET k == calls[c] IN
        (IsResolver(k) /\ k.args[1] \in EmptyRoots /\ k.out.kind = "return")
            => IsAbsolute(k.out.value)

\* what holds instead: the path is absolute when the source that supplied
\* the root holds an absolute value; a relative value of an environment
\* variable is joined with the token as it is
C24_AbsoluteFromAbsolute ==
    \A c \in CallIds :
        LET k == calls[c] IN
        (IsResolver(k) /\ k.args[1] \in EmptyRoots /\ k.out.kind = "return")
            => (IsAbsolute(k.out.value) <=> IsAbsolute(ExpectedRoot))

C24_RelativeReturned ==
    \E c \in CallIds :
        /\ IsResolver(calls[c]) /\ calls[c].args[1] = Undefined
        /\ env.TMPDIR = StrV(<<"r">>)
        /\ calls[c].out.kind = "return"
        /\ ~IsAbsolute(calls[c].out.value)

(***************************************************************************)
(* C25.  No retries.  One call of createTempPathSync or createTempPath     *)
(* issues at most two filesystem operations: the recursive creation of the *)
(* parent directory first, then at most one operation on the target (mkdir *)
(* or writeFile); no operation is issued twice, none is issued after an    *)
(* operation failed, and the target's operation is issued only after the   *)
(* parent's creation succeeded.                                            *)
(***************************************************************************)
C25_NoRetries ==
    \A c \in CallIds :
        LET k == calls[c] IN
        (IsSync(k) \/ IsAsync(k)) =>
            /\ Len(Issued(k)) <= 2
            /\ Cardinality({n \in 1..Len(Issued(k)) : Issued(k)[n][1] = "mkdirp"}) <= 1
            /\ Cardinality({n \in 1..Len(Issued(k)) : Issued(k)[n][1] # "mkdirp"}) <= 1
            /\ Len(Issued(k)) >= 1 => Issued(k)[1][1] = "mkdirp"
            /\ Len(Issued(k)) = 2 =>
                  /\ Issued(k)[2][1] \in {"mkdir", "writeFile"}
                  /\ Outcomes(k)[1] = NoErr
            /\ \A j \in FailedAt(k.log) : \A i \in At(k.log, "op") : i < j
            /\ Len(Outcomes(k)) <= Len(Issued(k))

\* both forms had the parent's creation fail and ended with that one
\* operation
C25_Witness ==
    \E c1, c2 \in CallIds :
        /\ IsSync(calls[c1]) /\ IsAsync(calls[c2])
        /\ Ended(calls[c1]) /\ Ended(calls[c2])
        /\ Len(Issued(calls[c1])) = 1 /\ Outcomes(calls[c1])[1] # NoErr
        /\ Len(Issued(calls[c2])) = 1 /\ Outcomes(calls[c2])[1] # NoErr

(***************************************************************************)
(* C26, as stated.  The error createTempPathSync raises for a failed       *)
(* filesystem operation says "directory" whenever the operation that       *)
(* failed was the creation of a directory, the parent directory of a       *)
(* file-mode call included, and "file" whenever it was the file write.     *)
(***************************************************************************)
C26_Original ==
    \A c \in CallIds :
        LET k == calls[c] IN
        (IsSync(k) /\ ShapeOf(k).plain) =>
            \A i \in FailedAt(k.log) :
                k.out.err.message =
                    IF k.log[i].op = "writeFile" THEN FileMessage ELSE DirectoryMessage

(***************************************************************************)
(* C26, amended.  The error says what the call was to create, not which    *)
(* operation failed: "file" whenever the failing operation was the file    *)
(* write, "directory" whenever it was the creation of the target           *)
(* directory, and for a failed creation of the parent directory "file" in  *)
(* a file-mode call and "directory" in a directory-mode call.              *)
(***************************************************************************)
C26_MessageNamesTarget ==
    \A c \in CallIds :
        LET k == calls[c] IN
        (IsSync(k) /\ ShapeOf(k).plain) =>
            \A i \in FailedAt(k.log) :
                /\ k.out.kind = "throw"
                /\ k.log[i].op = "writeFile" => k.out.err.message = FileMessage
                /\ k.log[i].op = "mkdir" => k.out.err.message = DirectoryMessage
                /\ k.log[i].op = "mkdirp" =>
                      k.out.err.message =
                          IF Truthy(ShapeOf(k).options.asFile) THEN FileMessage
                          ELSE DirectoryMessage

\* the parent's creation failed in a file-mode call and the error says "file"
C26_Witness ==
    \E c \in CallIds :
        /\ IsSync(calls[c]) /\ ShapeOf(calls[c]).plain
        /\ ShapeOf(calls[c]).options.asFile = BoolV(TRUE)
        /\ \E i \in FailedAt(calls[c].log) : calls[c].log[i].op = "mkdirp"
        /\ calls[c].out.err.message = FileMessage

(***************************************************************************)
(* The record r without its extension, and the error with which a call of  *)
(* k's function with k's other arguments and the record r is rejected      *)
(* before any filesystem operation (NoErr when it is not rejected).        *)
(***************************************************************************)
WithoutExt(r) == [r EXCEPT !.ext = Undefined]

RejectionOf(isSync, out) ==
    IF out.kind = "throw" /\ (~isSync \/ out.err.name # "Error") THEN out.err ELSE NoErr

RejectedWith(k, r) ==
    IF IsSync(k)
    THEN RejectionOf(TRUE, createTempPathSync(k.args[1], r, UUID(k.uuid), "", "").out)
    ELSE RejectionOf(FALSE, CreateTempPathEnter(k.args[1], r, k.args[3], UUID(k.uuid)).out)

\* a directory-mode call does what the same call without the extension does:
\* it is rejected with the same error, or creates the parent and then the
\* directory at the resolved path, and reports that path
SameAsWithoutExt(k) ==
    /\ RejectionOf(IsSync(k), k.out) = RejectedWith(k, WithoutExt(k.args[2]))
    /\ \A n \in 1..Len(Issued(k)) :
          Issued(k)[n] = IF n = 1 THEN <<"mkdirp", ExpectedParent(k)>>
                         ELSE <<"mkdir", ExpectedPath(k)>>
    /\ \A p \in Reported(k) : p = ExpectedPath(k)
    /\ (Ended(k) /\ RejectionOf(IsSync(k), k.out) = NoErr) =>
          (Reported(k) # {} <=> FailedAt(k.log) = {})

DirectoryMode(k) ==
    /\ IsSync(k) \/ IsAsync(k)
    /\ k.args[2].t = "object" /\ ~Truthy(k.args[2].asFile)

(***************************************************************************)
(* C27, as stated.  In directory mode the extension is ignored: for every  *)
(* value of options.ext, of any type, createTempPathSync and               *)
(* createTempPath do what they do when ext is absent (same rejection, same *)
(* operations, same success or failure, same reported path without a       *)
(* suffix).                                                                *)
(***************************************************************************)
C27_Original ==
    \A c \in CallIds : DirectoryMode(calls[c]) => SameAsWithoutExt(calls[c])

(***************************************************************************)
(* C27 for the values that pass the check of the extension's type.  In     *)
(* directory mode the extension is ignored when it is a string or a falsy  *)
(* value: the call does what it does when ext is absent.                   *)
(* An extension that is truthy and not a string is rejected with a         *)
(* TypeError in directory mode as in file mode, before any filesystem      *)
(* operation.                                                              *)
(***************************************************************************)
C27_ExtensionIgnored ==
    \A c \in CallIds :
        LET k == calls[c]
            ext == k.args[2].ext
        IN  DirectoryMode(k) =>
                IF ext.t = "string" \/ ~Truthy(ext)
                THEN SameAsWithoutExt(k)
                ELSE /\ k.out.kind = "throw" /\ k.out.err.name = "TypeError"
                     /\ Len(Issued(k)) = 0

C27_Witness ==
    \E c \in CallIds :
        /\ IsAsync(calls[c]) /\ DirectoryMode(calls[c])
        /\ calls[c].args[2].ext = StrV(<<".", "x">>)
        /\ Ended(calls[c])
        /\ Reported(calls[c]) = {ExpectedPath(calls[c])}
        /\ Key(ExpectedPath(calls[c])) \in dirs

(***************************************************************************)
(* Two createTempPath calls that share a root directory which did not      *)
(* exist before them and that resolved different paths, none of whose      *)
(* filesystem operations was made to fail from outside.                    *)
(***************************************************************************)
Undisturbed(k) ==
    \A i \in At(k.log, "settle") : k.log[i].err # NoErr => k.log[i].err.code # "EACCES"

SharedRootPair(k1, k2) ==
    /\ IsAsync(k1) /\ IsAsync(k2)
    /\ k1.args[1] = StrV(<<Sep, "t">>) /\ k2.args[1] = k1.args[1]
    /\ k1.out.kind = "return" /\ k2.out.kind = "return"
    /\ ExpectedPath(k1) # ExpectedPath(k2)
    /\ Undisturbed(k1) /\ Undisturbed(k2)

(***************************************************************************)
(* C28.  Two concurrent createTempPath calls that share a root directory   *)
(* not yet existing and have different tokens both succeed, under every    *)
(* interleaving of their operations: no operation of either fails (the     *)
(* recursive creation of the parent succeeds also when the other call made *)
(* the parent first), and each callback is invoked exactly once, with no   *)
(* error and with the path of its own call.                                *)
(***************************************************************************)
C28_ConcurrentBothSucceed ==
    \A c1, c2 \in CallIds :
        LET k1 == calls[c1]
            k2 == calls[c2]
        IN  (c1 # c2 /\ SharedRootPair(k1, k2)) =>
                /\ FailedAt(k1.log) = {}
                /\ Ended(k1) =>
                      /\ Cardinality(At(k1.log, "cb")) = 1
                      /\ \A i \in At(k1.log, "cb") :
                            k1.log[i].err = NoErr /\ k1.log[i].path = ExpectedPath(k1)

\* the same, for callbacks that return normally, and whatever the callback
\* does for the part that concerns the filesystem
C28_NeitherHindersTheOther ==
    \A c1, c2 \in CallIds :
        LET k1 == calls[c1]
            k2 == calls[c2]
        IN  (c1 # c2 /\ SharedRootPair(k1, k2)) =>
                /\ FailedAt(k1.log) = {}
                /\ Ended(k1) =>
                      /\ Cardinality(SuccessAt(k1)) = 1
                      /\ \A i \in SuccessAt(k1) : k1.log[i].path = ExpectedPath(k1)
                      /\ Key(ExpectedPath(k1)) \in dirs
                      /\ At(k1.log, "cbthrow") = {} => Cardinality(At(k1.log, "cb")) = 1

C28_BothCreated ==
    \E c1, c2 \in CallIds :
        /\ c1 # c2 /\ SharedRootPair(calls[c1], calls[c2])
        /\ calls[c1].pc = "done" /\ calls[c2].pc = "done"
        /\ At(calls[c1].log, "cbthrow") = {} /\ At(calls[c2].log, "cbthrow") = {}
        /\ {Key(ExpectedPath(calls[c1])), Key(ExpectedPath(calls[c2]))} \subseteq dirs

(***************************************************************************)
(* Two directory-mode calls of createTempPath or createTempPathSync that   *)
(* resolved the same path; the call reported a failure of the filesystem   *)
(* (createTempPathSync by the cause of the error it raised, createTempPath *)
(* by the error handed to the callback); the directories the call has made *)
(* at its resolved path.                                                   *)
(***************************************************************************)
SamePathPair(k1, k2) ==
    /\ DirectoryMode(k1) /\ DirectoryMode(k2)
    /\ Len(Issued(k1)) > 0 /\ Len(Issued(k2)) > 0
    /\ ExpectedPath(k1) = ExpectedPath(k2)

ReportsFsFailure(k) ==
    IF IsSync(k)
    THEN k.out.kind = "throw" /\ k.out.err.cause # NoErr /\ k.out.err.cause.code # ""
    ELSE \E i \in At(k.log, "cb") : k.log[i].err # NoErr /\ k.log[i].err.code # ""

Made(k) ==
    {k.log[i].path : i \in {j \in At(k.log, "settle") :
                                k.log[j].op # "mkdirp" /\ k.log[j].err = NoErr}}

(***************************************************************************)
(* C29.  In directory mode a call reports success only for a directory it  *)
(* made itself at a path where nothing existed: when two calls, of either  *)
(* form, one after the other or interleaved, resolve the same path, at     *)
(* most one of them reports success, and once both have ended at least one *)
(* of them has reported a failure of the filesystem, the other one when    *)
(* one succeeded.  Whenever a call makes its directory, no directory and   *)
(* no file was at that path just before.                                   *)
(***************************************************************************)
C29_AtMostOneSucceeds ==
    /\ [](\A c1, c2 \in CallIds :
            LET k1 == calls[c1]
                k2 == calls[c2]
            IN  (c1 # c2 /\ SamePathPair(k1, k2)) =>
                    /\ Reported(k1) = {} \/ Reported(k2) = {}
                    /\ Reported(k1) # {} => Reported(k1) = Made(k1)
                    /\ (Ended(k1) /\ Ended(k2) /\ Reported(k1) # {}) =>
                          ReportsFsFailure(k2) /\ Reported(k2) = {}
                    /\ (Ended(k1) /\ Ended(k2)) =>
                          ReportsFsFailure(k1) \/ ReportsFsFailure(k2))
    /\ [][\A c \in CallIds :
            DirectoryMode(calls'[c]) =>
                \A p \in Made(calls'[c]) \ (IF DirectoryMode(calls[c]) THEN Made(calls[c]) ELSE {}) :
                    Key(p) \notin dirs /\ Key(p) \notin DOMAIN files]_vars

\* a blocking call made the directory and an asynchronous call for the same
\* path was told that it exists
C29_Witness ==
    \E c1, c2 \in CallIds :
        /\ c1 # c2 /\ SamePathPair(calls[c1], calls[c2])
        /\ IsSync(calls[c1]) /\ IsAsync(calls[c2])
        /\ Reported(calls[c1]) = {ExpectedPath(calls[c1])}
        /\ Ended(calls[c2]) /\ Reported(calls[c2]) = {}
        /\ \E i \in At(calls[c2].log, "cb") : calls[c2].log[i].err.code = "EEXIST"

(***************************************************************************)
(* A createTempPathSync call without options whose first argument is no    *)
(* record (undefined, null or a string) does what the call with that root  *)
(* directory and the options {} does: it creates the parent and then a     *)
(* directory named by a token of TokenLen characters, returns its path,    *)
(* and raises nothing but the wrapped failure of a filesystem operation.   *)
(***************************************************************************)
OptionsOmitted(k) ==
    /\ IsSync(k)
    /\ NoValue(k.args[2])
    /\ k.args[1].t \in {"undefined", "null", "string"}

AsWithEmptyOptions(k) ==
    /\ k.out.kind = "throw" => (k.out.err.name = "Error" /\ FailedAt(k.log) # {})
    /\ Len(Issued(k)) >= 1
    /\ Issued(k)[1][1] = "mkdirp" /\ SameDir(Issued(k)[1][2], ExpectedParent(k))
    /\ Len(Issued(k)) = 2 => Issued(k)[2] = <<"mkdir", ExpectedPath(k)>>
    /\ FailedAt(k.log) = {} =>
          /\ k.out = Return(ExpectedPath(k))
          /\ Len(ExpectedToken(k)) = TokenLen
          /\ Key(ExpectedPath(k)) \in dirs

(***************************************************************************)
(* C30.  In createTempPathSync, when options is not supplied and the first *)
(* argument is omitted, undefined, null or a string, options defaults to   *)
(* {}; in particular createTempPathSync(null) does what                    *)
(* createTempPathSync() does: it creates a directory under the default     *)
(* root and raises no error.                                               *)
(***************************************************************************)
C30_OptionsDefaultEmpty ==
    \A c \in CallIds : OptionsOmitted(calls[c]) => AsWithEmptyOptions(calls[c])

\* the same without the calls whose first argument is null
C30_ExceptNull ==
    \A c \in CallIds :
        (OptionsOmitted(calls[c]) /\ calls[c].args[1] # Null) => AsWithEmptyOptions(calls[c])

C30_NullRaises ==
    \E c \in CallIds :
        /\ OptionsOmitted(calls[c]) /\ calls[c].args = <<Null, Undefined>>
        /\ calls[c].out = Throw(CannotRead)
        /\ Len(Issued(calls[c])) = 0

====
